---- MODULE Spec2Model ----
(***************************************************************************)
(* Model of the conda environment YAML generator,                         *)
(* src/gemini-12/batch_generate_yamls_with_condacheck.py.                  *)
(*                                                                         *)
(* Python strings are sequences of one-character strings, so that split,   *)
(* strip and the regular expressions are computed character by character.  *)
(* YAML values are records of one shape per level (a tag t and the fields  *)
(* of every variant), so that values of different Python types can be      *)
(* compared.                                                               *)
(***************************************************************************)
EXTENDS Integers, Sequences, FiniteSets, TLC

VARIABLES
    pc,                 \* position of the running function
    arg,                \* argument of the pure function under call
    ret,                \* its return value
    commands,           \* the conda commands run so far, in order
    hist_data,          \* process_environment: the parsed history export
    nobuild,            \* how the full export went, and its parsed data
    pip_section,        \* process_environment: the extracted pip section
    history_is_good,    \* process_environment: the verdict on the history
    list_export_output, \* process_environment: the lines of conda list --export
    final_yaml_data,    \* process_environment: the manifest, or None
    notes_list,         \* process_environment: the notes collected
    result,             \* process_environment: the result dictionary
    files,              \* the files written under the output directories
    found_envs_data,    \* __main__: the environments discovered
    env_index,          \* __main__: how many of them the for loop has taken
    handed,             \* __main__: the calls of process_environment, in order
    all_results,        \* __main__: the summary rows
    use_original_name,  \* the flag --use-original-name, handed to process_environment
    packages_to_test,   \* install tester: the packages read from the file
    test_index,         \* install tester: how many of them the for loop has taken
    results,            \* install tester: the result rows
    success_count,      \* install tester
    failure_count,      \* install tester
    conda_runs,         \* install tester: the calls of run_conda_command, in order
    envs,               \* channel auditor: the environments found
    audit_index,        \* channel auditor: how many of them the for loop has taken
    conda_lists,        \* channel auditor: what get_conda_packages returned, in order
    csv_results,        \* channel auditor: the rows of the detailed report
    error_envs,         \* channel auditor: the environments of a failed scan
    violation_envs      \* channel auditor: the environments with a violation

fnvars == <<arg, ret>>

envvars ==
    <<commands, hist_data, nobuild, pip_section, history_is_good,
      list_export_output, final_yaml_data, notes_list, result, files>>

mainvars == <<found_envs_data, env_index, handed, all_results, use_original_name>>

testervars ==
    <<packages_to_test, test_index, results, success_count, failure_count, conda_runs>>

auditvars ==
    <<envs, audit_index, conda_lists, csv_results, error_envs, violation_envs>>

toolvars == <<testervars, auditvars>>

vars == <<pc, fnvars, envvars, mainvars, toolvars>>

(***************************************************************************)
(* Bounds of the model                                                     *)
(***************************************************************************)
\* longest history prefix drawn freely from the pool of entries
MaxHistLen == 2

\* most lines of a listing given to parse_conda_list_export
MaxParseLen == 3

\* most environments discovered in one batch
MaxEnvs == 3

\* most components of an environment path
MaxDepth == 2

\* most search paths given on the command line
MaxSearchPaths == 2

\* most packages in the file given to the install tester
MaxPackages == 3

\* most packages that conda list reports for one environment
MaxPkgs == 2

\* longest history export an environment answers with (but for the padded one)
MaxEnvHistLen == 2

\* most lines of a conda list --export output
MaxListLen == 3

\* most entries of a nested pip list
MaxPipLen == 2

(***************************************************************************)
(* Characters (Python's re classes \w, \d, \s, [0-9a-f])                   *)
(***************************************************************************)
DigitChars == {"0","1","2","3","4","5","6","7","8","9"}

HexChars == DigitChars \cup {"a","b","c","d","e","f"}

LetterChars ==
    {"a","b","c","d","e","f","g","h","i","j","k","l","m",
     "n","o","p","q","r","s","t","u","v","w","x","y","z",
     "A","B","C","D","E","F","G","H","I","J","K","L","M",
     "N","O","P","Q","R","S","T","U","V","W","X","Y","Z"}

WordChars == LetterChars \cup DigitChars \cup {"_"}

SpaceChars == {" ", "\t", "\n", "\r"}

(***************************************************************************)
(* Python str methods                                                      *)
(***************************************************************************)
SetMin(S) == CHOOSE x \in S : \A y \in S : x <= y

SetMax(S) == CHOOSE x \in S : \A y \in S : x >= y

\* every character of s[a..b] is in class C (true of the empty range)
AllIn(s, a, b, C) == \A k \in a..b : s[k] \in C

\* s[i:] in Python, with i counted from 1
From(s, i) == SubSeq(s, i, Len(s))

\* str.startswith
StartsWith(s, p) == Len(s) >= Len(p) /\ SubSeq(s, 1, Len(p)) = p

\* str.find, counted from 1; 0 when sep does not occur
Find(s, sep) ==
    LET hits == {i \in 1..(Len(s) - Len(sep) + 1) : SubSeq(s, i, i + Len(sep) - 1) = sep}
    IN  IF hits = {} THEN 0 ELSE SetMin(hits)

\* sub in s
Contains(s, sub) == Find(s, sub) # 0

\* str.strip()
Strip(s) ==
    LET keep == {i \in 1..Len(s) : s[i] \notin SpaceChars}
    IN  IF keep = {} THEN <<>> ELSE SubSeq(s, SetMin(keep), SetMax(keep))

\* str.split(sep) for a non-empty separator string sep
RECURSIVE Split(_, _)
Split(s, sep) ==
    LET j == Find(s, sep)
    IN  IF j = 0 THEN <<s>>
        ELSE <<SubSeq(s, 1, j - 1)>> \o Split(From(s, j + Len(sep)), sep)

\* sep.join(parts)
RECURSIVE Join(_, _)
Join(parts, sep) ==
    IF parts = <<>> THEN <<>>
    ELSE IF Len(parts) = 1 THEN parts[1]
    ELSE parts[1] \o sep \o Join(From(parts, 2), sep)

(***************************************************************************)
(* Filtering configuration                                                 *)
(***************************************************************************)
FILTER_OUT_PACKAGES ==
    { <<"_","l","i","b","g","c","c","_","m","u","t","e","x">>,
      <<"_","o","p","e","n","m","p","_","m","u","t","e","x">>,
      <<"b","z","i","p","2">>,
      <<"c","a","-","c","e","r","t","i","f","i","c","a","t","e","s">>,
      <<"l","d","_","i","m","p","l","_","l","i","n","u","x","-","6","4">>,
      <<"l","i","b","f","f","i">>,
      <<"l","i","b","g","c","c","-","n","g">>,
      <<"l","i","b","g","o","m","p">>,
      <<"l","i","b","s","t","d","c","x","x","-","n","g">>,
      <<"l","i","b","u","u","i","d">>,
      <<"n","c","u","r","s","e","s">>,
      <<"o","p","e","n","s","s","l">>,
      <<"r","e","a","d","l","i","n","e">>,
      <<"s","q","l","i","t","e">>,
      <<"t","k">>,
      <<"t","z","d","a","t","a">>,
      <<"x","z">>,
      <<"z","l","i","b">>,
      <<"c","e","r","t","i","f","i">>,
      <<"s","e","t","u","p","t","o","o","l","s">>,
      <<"p","i","p">>,
      <<"w","h","e","e","l">>,
      <<"s","i","x">>,
      <<"z","i","p","p">> }

HISTORY_LENGTH_THRESHOLD == 50

\* "$": the end of the string, or just before a final newline
AtEnd(s, k) == k = Len(s) \/ (k = Len(s) - 1 /\ s[Len(s)] = "\n")

\* =\w*h[0-9a-f]{7,}  matched with the "=" at position i
BuildHashAt(s, i) ==
    \E j \in (i + 1)..Len(s) :
        /\ AllIn(s, i + 1, j - 1, WordChars)
        /\ s[j] = "h"
        /\ j + 7 <= Len(s)
        /\ AllIn(s, j + 1, j + 7, HexChars)

\* =\w+_\d+$  matched with the "=" at position i
BuildNumberAt(s, i) ==
    \E k \in (i + 2)..(Len(s) - 1) : \E e \in (k + 1)..Len(s) :
        /\ AllIn(s, i + 1, k - 1, WordChars)
        /\ s[k] = "_"
        /\ AllIn(s, k + 1, e, DigitChars)
        /\ AtEnd(s, e)

\* =main$  matched with the "=" at position i
BuildMainAt(s, i) ==
    \E e \in (i + 4)..Len(s) :
        /\ SubSeq(s, i + 1, e) = <<"m","a","i","n">>
        /\ AtEnd(s, e)

\* BUILD_STRING_RE.search(dep) is not None
BUILD_STRING_RE(dep) ==
    \E i \in 1..Len(dep) :
        /\ dep[i] = "="
        /\ (BuildHashAt(dep, i) \/ BuildNumberAt(dep, i) \/ BuildMainAt(dep, i))

(***************************************************************************)
(* YAML values (the results of yaml.safe_load)                             *)
(*                                                                         *)
(* A document: t is the Python type; n the value of an int; s the value of *)
(* a str; items the elements of a list (strings); for a dict, hasdeps says *)
(* that the key 'dependencies' is present, other that another key is, dt   *)
(* is the type of the value of 'dependencies' and deps that value when it  *)
(* is a list.                                                              *)
(* An element of a dependencies list: a str (s), an int, or a dict of one  *)
(* key s whose value has type vt and, when a list, the elements l.         *)
(* An element of a nested list: a str (s) or an int.                       *)
(***************************************************************************)
Doc(t, n, s, items, hasdeps, other, dt, deps) ==
    [t |-> t, n |-> n, s |-> s, items |-> items,
     hasdeps |-> hasdeps, other |-> other, dt |-> dt, deps |-> deps]

NoneDoc == Doc("none", 0, <<>>, <<>>, FALSE, FALSE, "-", <<>>)

IntDoc(n) == Doc("int", n, <<>>, <<>>, FALSE, FALSE, "-", <<>>)

StrDoc(s) == Doc("str", 0, s, <<>>, FALSE, FALSE, "-", <<>>)

ListDoc(items) == Doc("list", 0, <<>>, items, FALSE, FALSE, "-", <<>>)

\* a mapping without the key 'dependencies'; other says whether it has any key
DictNoDeps(other) == Doc("dict", 0, <<>>, <<>>, FALSE, other, "-", <<>>)

\* a mapping whose 'dependencies' value is not a list (dt is "none" or "str")
DictBadDeps(dt) == Doc("dict", 0, <<>>, <<>>, TRUE, TRUE, dt, <<>>)

\* a mapping with name, channels and a dependencies list
DictDeps(deps) == Doc("dict", 0, <<>>, <<>>, TRUE, TRUE, "list", deps)

StrDep(s) == [t |-> "str", s |-> s, vt |-> "-", l |-> <<>>]

IntDep == [t |-> "int", s |-> <<>>, vt |-> "-", l |-> <<>>]

DictDep(key, vt, l) == [t |-> "dict", s |-> key, vt |-> vt, l |-> l]

StrItem(s) == [t |-> "str", s |-> s]

IntItem == [t |-> "int", s |-> <<>>]

S_dependencies == <<"d","e","p","e","n","d","e","n","c","i","e","s">>

S_python == <<"p","y","t","h","o","n">>

S_pip == <<"p","i","p">>

S_setuptools == <<"s","e","t","u","p","t","o","o","l","s">>

S_wheel == <<"w","h","e","e","l">>

\* bool(value) for a document
Truthy(d) ==
    CASE d.t = "none" -> FALSE
      [] d.t = "int"  -> d.n # 0
      [] d.t = "str"  -> d.s # <<>>
      [] d.t = "list" -> d.items # <<>>
      [] OTHER        -> d.hasdeps \/ d.other

(***************************************************************************)
(* is_history_output_good                                                  *)
(***************************************************************************)
\* A reason: the message's fixed text (kind) and the values formatted into it
Reason(kind, count, threshold, text) ==
    [kind |-> kind, count |-> count, threshold |-> threshold, text |-> text]

NoReason == Reason("", 0, 0, <<>>)

Verdict(raised, good, reason) == [raised |-> raised, good |-> good, reason |-> reason]

NoVerdict == Verdict(FALSE, FALSE, NoReason)

\* 'dependencies' not in hist_data or not isinstance(hist_data['dependencies'], list)
\* raises TypeError: "in" on an int; indexing a str or a list with a str
ShapeRaises(data) ==
    \/ data.t = "int"
    \/ data.t = "str" /\ Contains(data.s, S_dependencies)
    \/ data.t = "list" /\ \E i \in 1..Len(data.items) : data.items[i] = S_dependencies

\* the value of the same condition where it raises nothing
ShapeInvalid(data) ==
    \/ data.t \in {"str", "list"}
    \/ data.t = "dict" /\ (~data.hasdeps \/ data.dt # "list")

\* mutant: the threshold taken one too high
TooMany_off_by_one(dependencies) == Len(dependencies) > HISTORY_LENGTH_THRESHOLD + 1

\* mutant: >= in place of >
TooMany_inclusive(dependencies) == Len(dependencies) >= HISTORY_LENGTH_THRESHOLD

\* len(dependencies) > HISTORY_LENGTH_THRESHOLD
TooMany(dependencies) == Len(dependencies) > HISTORY_LENGTH_THRESHOLD

\* dep.split('=')[0].strip()
hist_package_name(dep) == Strip(Split(dep, <<"=">>)[1])

\* mutant: the message names the package, not the entry
build_string_reason_names_package(dep) ==
    Reason("Found build string in", 0, 0, hist_package_name(dep))

\* f"Found build string in '{dep}'"
build_string_reason(dep) == Reason("Found build string in", 0, 0, dep)

\* the for loop over dependencies, from entry i on
RECURSIVE CheckDeps(_, _)
CheckDeps(dependencies, i) ==
    IF i > Len(dependencies) THEN Verdict(FALSE, TRUE, Reason("Clean", 0, 0, <<>>))
    ELSE LET dep == dependencies[i] IN
         IF dep.t # "str" THEN CheckDeps(dependencies, i + 1)
         ELSE IF BUILD_STRING_RE(dep.s)
              THEN Verdict(FALSE, FALSE, build_string_reason(dep.s))
         ELSE IF hist_package_name(dep.s) \in FILTER_OUT_PACKAGES
              THEN Verdict(FALSE, FALSE,
                           Reason("Found low-level package", 0, 0, hist_package_name(dep.s)))
         ELSE CheckDeps(dependencies, i + 1)

is_history_output_good(data) ==
    IF ~Truthy(data)
    THEN Verdict(FALSE, FALSE, Reason("Invalid history format", 0, 0, <<>>))
    ELSE IF ShapeRaises(data) THEN Verdict(TRUE, FALSE, NoReason)
    ELSE IF ShapeInvalid(data)
    THEN Verdict(FALSE, FALSE, Reason("Invalid history format", 0, 0, <<>>))
    ELSE IF TooMany(data.deps)
    THEN Verdict(FALSE, FALSE,
                 Reason("Dependency count > threshold",
                        Len(data.deps), HISTORY_LENGTH_THRESHOLD, <<>>))
    ELSE CheckDeps(data.deps, 1)

(***************************************************************************)
(* get_pip_deps_from_export                                                *)
(***************************************************************************)
\* first index from i on holding a newline, or Len(s) + 1: where ".*" stops
LineEnd(s, i) ==
    LET nl == {k \in i..Len(s) : s[k] = "\n"}
    IN  IF nl = {} THEN Len(s) + 1 ELSE SetMin(nl)

\* regex_build, \s*#.* , matches from position i
BuildCommentAt(s, i) ==
    \E j \in i..Len(s) : AllIn(s, i, j - 1, SpaceChars) /\ s[j] = "#"

\* re.sub(regex_build, "", p)
RECURSIVE SubBuild(_)
SubBuild(s) ==
    LET starts == {i \in 1..Len(s) : BuildCommentAt(s, i)} IN
    IF starts = {} THEN s
    ELSE LET i == SetMin(starts)
             hash == SetMin({j \in i..Len(s) : s[j] = "#"})
         IN  SubSeq(s, 1, i - 1) \o SubBuild(From(s, LineEnd(s, hash)))

\* the alternatives of regex_ver: ==, >=, <=, <, >, ~=
VerOperators ==
    {<<"=","=">>, <<">","=">>, <<"<","=">>, <<"<">>, <<">">>, <<"~","=">>}

\* [\w\.\-\+]
VerChars == WordChars \cup {".", "-", "+"}

\* regex_ver, (==|>=|<=|<|>|~=)\s*[\w\.\-\+]+.* , matches from position i
VerAt(s, i) ==
    \E op \in VerOperators :
        /\ i + Len(op) - 1 <= Len(s)
        /\ SubSeq(s, i, i + Len(op) - 1) = op
        /\ \E k \in (i + Len(op))..Len(s) :
              AllIn(s, i + Len(op), k - 1, SpaceChars) /\ s[k] \in VerChars

\* re.sub(regex_ver, "", p_no_build)
RECURSIVE SubVer(_)
SubVer(s) ==
    LET starts == {i \in 1..Len(s) : VerAt(s, i)} IN
    IF starts = {} THEN s
    ELSE LET i == SetMin(starts)
             ver == SetMin({k \in i..Len(s) : s[k] \in VerChars})
         IN  SubSeq(s, 1, i - 1) \o SubVer(From(s, LineEnd(s, ver)))

\* mutant: the version qualifier is left in place
clean_pip_dep_keeps_version(p) == Strip(SubBuild(p))

\* p_cleaned for one string entry p of the pip list
clean_pip_dep(p) == Strip(SubVer(Strip(SubBuild(p))))

\* mutant: an entry that cleans to the empty string is kept
RECURSIVE cleaned_list_keeps_empty(_, _)
cleaned_list_keeps_empty(pips, i) ==
    IF i > Len(pips) THEN <<>>
    ELSE IF pips[i].t = "str"
         THEN <<clean_pip_dep(pips[i].s)>> \o cleaned_list_keeps_empty(pips, i + 1)
         ELSE cleaned_list_keeps_empty(pips, i + 1)

\* the loop over pip_deps_section["pip"], from entry i on
RECURSIVE cleaned_list(_, _)
cleaned_list(pips, i) ==
    IF i > Len(pips) THEN <<>>
    ELSE IF pips[i].t = "str" /\ clean_pip_dep(pips[i].s) # <<>>
         THEN <<clean_pip_dep(pips[i].s)>> \o cleaned_list(pips, i + 1)
         ELSE cleaned_list(pips, i + 1)

\* a pip section: None, or {'pip': pip}
NoPip == [none |-> TRUE, pip |-> <<>>]

PipSection(pip) == [none |-> FALSE, pip |-> pip]

get_pip_deps_from_export(export_yaml_data) ==
    IF export_yaml_data.t # "dict" THEN NoPip
    ELSE IF export_yaml_data.hasdeps /\ export_yaml_data.dt # "list" THEN NoPip
    ELSE LET dependencies == export_yaml_data.deps
             found == {i \in 1..Len(dependencies) :
                          dependencies[i].t = "dict" /\ dependencies[i].s = S_pip}
         IN  IF found = {} THEN NoPip
             ELSE LET pip_deps_section == dependencies[SetMin(found)] IN
                  IF pip_deps_section.vt # "list" THEN NoPip
                  ELSE IF cleaned_list(pip_deps_section.l, 1) = <<>> THEN NoPip
                  ELSE PipSection(cleaned_list(pip_deps_section.l, 1))

(***************************************************************************)
(* parse_conda_list_export                                                 *)
(* export_output is the sequence of the lines of the text.                 *)
(***************************************************************************)
\* what one line appends to dependencies: nothing, or one entry
parse_line(raw) ==
    LET line == Strip(raw)
        parts == Split(line, <<"=">>)
        n == Len(parts)
    IN  IF line = <<>> \/ line[1] = "#" THEN <<>>
        ELSE IF n >= 2
             THEN LET package_name ==
                          IF n > 2 THEN Join(SubSeq(parts, 1, n - 2), <<"=">>) ELSE parts[1]
                      version == parts[n - 1]
                  IN  <<package_name \o <<"=">> \o version>>
             ELSE <<parts[1]>>

RECURSIVE parse_conda_list_export(_)
parse_conda_list_export(export_output) ==
    IF export_output = <<>> THEN <<>>
    ELSE parse_line(export_output[1]) \o parse_conda_list_export(From(export_output, 2))

(***************************************************************************)
(* process_environment: building the manifest                              *)
(***************************************************************************)
\* re.match(r"^python\s*(=|<|>|>=|<=|~=)", dep)
python_re(s) ==
    /\ StartsWith(s, S_python)
    /\ \E k \in 7..Len(s) :
          /\ AllIn(s, 7, k - 1, SpaceChars)
          /\ \/ s[k] \in {"=", "<", ">"}
             \/ s[k] = "~" /\ k < Len(s) /\ s[k + 1] = "="

\* isinstance(dep, str) and (dep == 'python' or re.match(...))
is_python_spec(dep) == dep.t = "str" /\ (dep.s = S_python \/ python_re(dep.s))

\* d.split('=<>')[0].strip()
hist_dep_name(d) == Strip(Split(d, <<"=", "<", ">">>)[1])

\* the names handled apart: ['python', 'pip', 'setuptools', 'wheel']
HandledNames == {S_python, S_pip, S_setuptools, S_wheel}

\* the pip section as the last element of a dependency list
PipEntry(section) == DictDep(S_pip, "list", [i \in 1..Len(section.pip) |-> StrItem(section.pip[i])])

\* mutant: the pip section is put in front of the other entries
AppendPip_in_front(new_deps, section) ==
    IF section.none THEN new_deps ELSE <<PipEntry(section)>> \o new_deps

\* new_deps.append(pip_section) when pip_section is truthy
AppendPip(new_deps, section) ==
    IF section.none THEN new_deps ELSE Append(new_deps, PipEntry(section))

\* mutant: the nested pip group of the history is passed through
RECURSIVE hist_passthrough_keeps_pip(_, _)
hist_passthrough_keeps_pip(deps, i) ==
    IF i > Len(deps) THEN <<>>
    ELSE LET dep == deps[i] IN
         IF dep.t = "str" /\ hist_dep_name(dep.s) \in HandledNames
         THEN hist_passthrough_keeps_pip(deps, i + 1)
         ELSE <<dep>> \o hist_passthrough_keeps_pip(deps, i + 1)

\* the second loop over dependencies_from_hist, from entry i on
RECURSIVE hist_passthrough(_, _)
hist_passthrough(deps, i) ==
    IF i > Len(deps) THEN <<>>
    ELSE LET dep == deps[i] IN
         IF dep.t = "str"
         THEN IF hist_dep_name(dep.s) \in HandledNames
              THEN hist_passthrough(deps, i + 1)
              ELSE <<dep>> \o hist_passthrough(deps, i + 1)
         ELSE IF dep.t = "dict" /\ dep.s = S_pip
              THEN hist_passthrough(deps, i + 1)
              ELSE <<dep>> \o hist_passthrough(deps, i + 1)

\* new_deps of the history branch
history_new_deps(dependencies_from_hist, section) ==
    LET pys == {i \in 1..Len(dependencies_from_hist) : is_python_spec(dependencies_from_hist[i])}
        original_python_spec ==
            IF pys = {} THEN <<>> ELSE <<dependencies_from_hist[SetMin(pys)]>>
        hist_dep_names ==
            {hist_dep_name(dependencies_from_hist[i].s) :
                 i \in {k \in 1..Len(dependencies_from_hist) : dependencies_from_hist[k].t = "str"}}
        injected ==
               (IF S_pip \notin hist_dep_names THEN <<StrDep(S_pip)>> ELSE <<>>)
            \o (IF S_setuptools \notin hist_dep_names THEN <<StrDep(S_setuptools)>> ELSE <<>>)
            \o (IF S_wheel \notin hist_dep_names THEN <<StrDep(S_wheel)>> ELSE <<>>)
    IN  AppendPip(original_python_spec \o injected \o hist_passthrough(dependencies_from_hist, 1),
                  section)

\* dep.split('=')[0].strip()
list_package_name(dep) == Strip(Split(dep, <<"=">>)[1])

\* mutant: the IgnoreSet is consulted before the names handled apart
RECURSIVE list_filter_ignore_first(_, _)
list_filter_ignore_first(deps, i) ==
    IF i > Len(deps) THEN [kept |-> <<>>, filtered |-> <<>>]
    ELSE LET rest == list_filter_ignore_first(deps, i + 1)
             package_name == list_package_name(deps[i])
         IN  IF package_name \in FILTER_OUT_PACKAGES
             THEN [rest EXCEPT !.filtered = <<deps[i]>> \o @]
             ELSE IF package_name \in HandledNames THEN rest
                  ELSE [rest EXCEPT !.kept = <<deps[i]>> \o @]

\* the filtering loop of the fallback branch, from entry i on:
\* the entries kept and the entries filtered out, both in order
RECURSIVE list_filter(_, _)
list_filter(deps, i) ==
    IF i > Len(deps) THEN [kept |-> <<>>, filtered |-> <<>>]
    ELSE LET rest == list_filter(deps, i + 1)
             package_name == list_package_name(deps[i])
         IN  IF package_name \in HandledNames THEN rest
             ELSE IF package_name \in FILTER_OUT_PACKAGES
                  THEN [rest EXCEPT !.filtered = <<deps[i]>> \o @]
                  ELSE [rest EXCEPT !.kept = <<deps[i]>> \o @]

\* mutant: the emptiness check is left out
list_is_empty_never(dependencies_from_list) == FALSE

\* not dependencies_from_list
list_is_empty(dependencies_from_list) == dependencies_from_list = <<>>

\* original_python_spec of the fallback branch
list_python_spec(dependencies_from_list) ==
    LET pys == {i \in 1..Len(dependencies_from_list) :
                   StartsWith(dependencies_from_list[i], S_python \o <<"=">>)}
    IN  IF pys = {} THEN <<>> ELSE <<StrDep(dependencies_from_list[SetMin(pys)])>>

\* mutant: pip, setuptools and wheel are put before the python spec
fallback_new_deps_python_late(dependencies_from_list, section) ==
    LET kept == list_filter(dependencies_from_list, 1).kept
    IN  AppendPip(<<StrDep(S_pip), StrDep(S_setuptools), StrDep(S_wheel)>>
                    \o list_python_spec(dependencies_from_list)
                    \o [i \in 1..Len(kept) |-> StrDep(kept[i])],
                  section)

\* new_deps of the fallback branch
fallback_new_deps(dependencies_from_list, section) ==
    LET kept == list_filter(dependencies_from_list, 1).kept
    IN  AppendPip(list_python_spec(dependencies_from_list)
                    \o <<StrDep(S_pip), StrDep(S_setuptools), StrDep(S_wheel)>>
                    \o [i \in 1..Len(kept) |-> StrDep(kept[i])],
                  section)

(***************************************************************************)
(* Inputs: histories                                                       *)
(***************************************************************************)
SeqsUpTo(S, n) == UNION {[1..k -> S] : k \in 0..n}

D_python310 == StrDep(<<"p","y","t","h","o","n","=","3",".","1","0">>)

D_numpy == StrDep(<<"n","u","m","p","y","=","1",".","2","4">>)

D_numpy_hash ==
    StrDep(<<"n","u","m","p","y","=","1",".","2","4",".","0","=",
             "h","3","c","5","3","6","1","c","_","0">>)

D_scipy_buildnum ==
    StrDep(<<"s","c","i","p","y","=","1",".","1","0","=","p","y","3","9","_","0">>)

D_six == StrDep(<<"s","i","x","=","1",".","1","6">>)

D_zlib == StrDep(<<"z","l","i","b">>)

D_pip_ge == StrDep(<<"p","i","p",">","=","2","0">>)

D_pandas == StrDep(<<"p","a","n","d","a","s">>)

\* a nested pip group as conda writes it into a history export
D_pipgroup ==
    DictDep(S_pip, "list",
            <<StrItem(<<"r","e","q","u","e","s","t","s","=","=","2",".","3","1",".","0">>)>>)

HistPool ==
    {D_python310, D_numpy, D_numpy_hash, D_scipy_buildnum, D_six, D_zlib,
     D_pip_ge, D_pandas, D_pipgroup}

\* deps followed by copies of D_numpy up to a length of total
Pad(deps, total) ==
    deps \o [i \in 1..(total - Len(deps)) |-> D_numpy]

\* lengths around the threshold, and no padding
PadTotals ==
    {0, HISTORY_LENGTH_THRESHOLD - 1, HISTORY_LENGTH_THRESHOLD, HISTORY_LENGTH_THRESHOLD + 1}

Histories == {Pad(p, n) : p \in SeqsUpTo(HistPool, MaxHistLen), n \in PadTotals}

MalformedDocs ==
    {NoneDoc, IntDoc(0), IntDoc(5), StrDoc(<<>>),
     StrDoc(<<"n","a","m","e",":"," ","e","n","v">>), StrDoc(S_dependencies),
     ListDoc(<<>>), ListDoc(<<S_python>>), ListDoc(<<S_dependencies>>),
     DictNoDeps(FALSE), DictNoDeps(TRUE), DictBadDeps("none"), DictBadDeps("str")}

HistDocs == MalformedDocs \cup {DictDeps(d) : d \in Histories}

(***************************************************************************)
(* Inputs: what the conda commands of one environment answer               *)
(***************************************************************************)
\* the failures run_conda_command re-raises
CmdErrors == {"CalledProcessError", "FileNotFoundError", "TimeoutExpired"}

I_requests_pinned ==
    StrItem(<<"r","e","q","u","e","s","t","s","=","=","2",".","3","1",".","0",
              " "," ","#"," ","c","o","m","m","e","n","t">>)

I_nota == StrItem(<<"n","o","t","a","-","r","e","a","l","-","p","a","c","k","a","g","e">>)

I_comment == StrItem(<<"#"," ","l","o","c","a","l">>)

\* entries of histories that is_history_output_good accepts
EnvHistPool == {D_python310, D_numpy, D_pip_ge, D_pipgroup, IntDep}

\* histories it rejects: a low-level package, a build string, too many entries
DirtyHistories ==
    {<<D_six>>, <<D_python310, D_numpy_hash>>,
     Pad(<<D_python310>>, HISTORY_LENGTH_THRESHOLD + 1)}

\* a low-level package given with a comparator other than "="
D_zlib_ge == StrDep(<<"z","l","i","b",">","=","1",".","2">>)

\* a history with such an entry
ComparatorHistories == {<<D_python310, D_zlib_ge>>}

EnvHistDocs ==
    {NoneDoc, IntDoc(5), DictNoDeps(TRUE), DictBadDeps("none")}
    \cup {DictDeps(d) : d \in DirtyHistories \cup ComparatorHistories}
    \cup {DictDeps(d) : d \in SeqsUpTo(EnvHistPool, MaxEnvHistLen)}

\* full exports: empty output, no pip marker, a pip group, a pip group of comments
FullDocs ==
    {NoneDoc,
     DictDeps(<<D_python310, D_numpy>>),
     DictDeps(<<D_python310, D_numpy, DictDep(S_pip, "list", <<I_requests_pinned, I_nota>>)>>),
     DictDeps(<<D_python310, DictDep(S_pip, "list", <<I_comment>>)>>)}

L_comment == <<"#"," ","p","a","c","k","a","g","e","s">>

L_numpy ==
    <<"n","u","m","p","y","=","1",".","2","4","=","p","y","3","9",
      "h","1","2","3","4","5","6","7","_","0">>

L_pandas2 == <<"p","a","n","d","a","s","=","2",".","0">>

L_pip == <<"p","i","p","=","2","3",".","0","=","0">>

L_python == <<"p","y","t","h","o","n","=","3",".","9","=","0">>

L_six == <<"s","i","x","=","1",".","1","6","=","0">>

L_blank == <<" ">>

\* the listing the outputs are cut from, in conda's alphabetical order
ListMaster == <<L_comment, L_blank, L_numpy, L_pandas2, L_pip, L_python, S_python, L_six>>

\* the elements of s at the positions in idx, in order
RECURSIVE Pick(_, _)
Pick(s, idx) ==
    IF idx = {} THEN <<>>
    ELSE <<s[SetMin(idx)]>> \o Pick(s, idx \ {SetMin(idx)})

ListOutputs ==
    {Pick(ListMaster, idx) : idx \in {x \in SUBSET (1..Len(ListMaster)) : Cardinality(x) <= MaxListLen}}
    \cup {<<L_python, L_numpy, L_six>>}

\* The flag --use-original-name only changes the name written into the
\* manifest, so the runs with the flag are explored on two histories (a clean
\* one and one that is not) and two list exports, the runs without it on all.
HistDocsWith(original) ==
    IF original THEN {DictDeps(<<D_python310, D_numpy>>), DictDeps(<<D_six>>)} ELSE EnvHistDocs

ListOutputsWith(original) ==
    IF original THEN {<<L_comment>>, <<L_python, L_numpy, L_six>>} ELSE ListOutputs

(***************************************************************************)
(* process_environment, one environment                                    *)
(***************************************************************************)
NoData == [how |-> "-", data |-> NoneDoc]

NoList == [how |-> "-", lines |-> <<>>]

NoManifest == [none |-> TRUE, name |-> "", dependencies |-> <<>>]

Manifest(name, new_deps) == [none |-> FALSE, name |-> name, dependencies |-> new_deps]

\* mutant: the prefix is put even with --use-original-name
final_env_name_always_prefixed(original, prefix) == prefix

\* final_env_name but for the original name that ends it: the prefix, or
\* nothing with --use-original-name
final_env_name(original, prefix) == IF original THEN "" ELSE prefix

\* result but for its fields env_name, env_path and current_conda_version
InitResult ==
    [method |-> "N/A", status |-> "ERROR",
     kept |-> 0, filtered |-> 0, filtered_list |-> <<>>, notes |-> <<>>]

FnIdle == arg = NoneDoc /\ ret = NoVerdict

EnvIdle ==
    /\ commands = <<>>
    /\ hist_data = NoneDoc
    /\ nobuild = NoData
    /\ pip_section = NoPip
    /\ history_is_good = FALSE
    /\ list_export_output = NoList
    /\ final_yaml_data = NoManifest
    /\ notes_list = <<>>
    /\ result = InitResult
    /\ files = {}

\* save_raw_output: the file is written, or the failure is logged (saved = FALSE)
save_raw_output(fs, output_dir, filename, saved) ==
    IF saved THEN fs \cup {[dir |-> output_dir, name |-> filename]} ELSE fs

\* __main__ is not running
LoopIdle ==
    /\ found_envs_data = <<>>
    /\ env_index = 0
    /\ handed = <<>>
    /\ all_results = <<>>

MainIdle == LoopIdle /\ use_original_name = FALSE

\* the install tester has not started
TesterIdle ==
    /\ packages_to_test = <<>>
    /\ test_index = 0
    /\ results = <<>>
    /\ success_count = 0
    /\ failure_count = 0
    /\ conda_runs = <<>>

\* the channel auditor has not started
AuditIdle ==
    /\ envs = <<>>
    /\ audit_index = 0
    /\ conda_lists = <<>>
    /\ csv_results = <<>>
    /\ error_envs = {}
    /\ violation_envs = {}

ToolsIdle == TesterIdle /\ AuditIdle

\* process_environment is entered, with or without --use-original-name
Init ==
    /\ pc = "version"
    /\ FnIdle
    /\ EnvIdle
    /\ ToolsIdle
    /\ LoopIdle
    /\ use_original_name \in BOOLEAN

\* conda --version: whether it succeeds or fails, only
\* result['current_conda_version'] depends on it
RunVersion ==
    /\ pc = "version"
    /\ commands' = Append(commands, "--version")
    /\ pc' = "history"
    /\ UNCHANGED <<toolvars, mainvars, fnvars, hist_data, nobuild, pip_section, history_is_good,
                   list_export_output, final_yaml_data, notes_list, result, files>>

\* mutant: the failure is noted and the full export is run all the same
RunHistoryFails_goes_on ==
    /\ pc = "history"
    /\ notes_list' = Append(notes_list, "Failed to get/parse history")
    /\ commands' = Append(commands, "env export --from-history")
    /\ pc' = "full_export"
    /\ UNCHANGED <<toolvars, mainvars, fnvars, hist_data, nobuild, pip_section, history_is_good,
                   list_export_output, final_yaml_data, result, files>>

\* conda env export --from-history fails: return result
RunHistoryFails ==
    /\ pc = "history"
    /\ \E e \in CmdErrors :
          result' = [result EXCEPT !.notes = <<"Failed to get/parse history">>]
    /\ commands' = Append(commands, "env export --from-history")
    /\ pc' = "returned"
    /\ UNCHANGED <<toolvars, mainvars, fnvars, hist_data, nobuild, pip_section, history_is_good,
                   list_export_output, final_yaml_data, notes_list, files>>

\* it succeeds, the raw output is archived, and yaml.safe_load raises
RunHistoryUnparsable ==
    /\ pc = "history"
    /\ \E saved \in BOOLEAN :
          files' = save_raw_output(files, "raw_history_outputs", "_history.yml", saved)
    /\ result' = [result EXCEPT !.notes = <<"Failed to get/parse history">>]
    /\ commands' = Append(commands, "env export --from-history")
    /\ pc' = "returned"
    /\ UNCHANGED <<toolvars, mainvars, fnvars, hist_data, nobuild, pip_section, history_is_good,
                   list_export_output, final_yaml_data, notes_list>>

\* it succeeds, the raw output is archived and parsed
RunHistoryParsed ==
    /\ pc = "history"
    /\ \E saved \in BOOLEAN :
          files' = save_raw_output(files, "raw_history_outputs", "_history.yml", saved)
    /\ \E doc \in HistDocsWith(use_original_name) : hist_data' = doc
    /\ commands' = Append(commands, "env export --from-history")
    /\ pc' = "full_export"
    /\ UNCHANGED <<toolvars, mainvars, fnvars, nobuild, pip_section, history_is_good,
                   list_export_output, final_yaml_data, notes_list, result>>

\* conda env export --no-builds fails, or its output does not parse
RunFullExportFails ==
    /\ pc = "full_export"
    /\ \/ \E e \in CmdErrors : nobuild' = [how |-> "failed", data |-> NoneDoc]
       \/ nobuild' = [how |-> "unparsable", data |-> NoneDoc]
    /\ pip_section' = NoPip
    /\ notes_list' = Append(notes_list, "Pip processing failed")
    /\ commands' = Append(commands, "env export")
    /\ pc' = "classify"
    /\ UNCHANGED <<toolvars, mainvars, fnvars, hist_data, history_is_good, list_export_output,
                   final_yaml_data, result, files>>

\* mutant: the pip section is extracted or not, at random
RunFullExportParsed_flaky_pip ==
    /\ pc = "full_export"
    /\ \E doc \in FullDocs :
          /\ nobuild' = [how |-> "ok", data |-> doc]
          /\ pip_section' \in {NoPip, get_pip_deps_from_export(doc)}
    /\ commands' = Append(commands, "env export")
    /\ pc' = "classify"
    /\ UNCHANGED <<toolvars, mainvars, fnvars, hist_data, history_is_good, list_export_output,
                   final_yaml_data, notes_list, result, files>>

\* it succeeds: the pip section is extracted from the parsed data
RunFullExportParsed ==
    /\ pc = "full_export"
    /\ \E doc \in FullDocs :
          /\ nobuild' = [how |-> "ok", data |-> doc]
          /\ pip_section' = get_pip_deps_from_export(doc)
    /\ commands' = Append(commands, "env export")
    /\ pc' = "classify"
    /\ UNCHANGED <<toolvars, mainvars, fnvars, hist_data, history_is_good, list_export_output,
                   final_yaml_data, notes_list, result, files>>

\* is_history_output_good raises: nothing in process_environment catches it
ClassifyRaises ==
    /\ pc = "classify"
    /\ is_history_output_good(hist_data).raised
    /\ pc' = "raised"
    /\ UNCHANGED <<toolvars, mainvars, fnvars, envvars>>

\* the history is good: the manifest is built from it
ClassifyHistory ==
    /\ pc = "classify"
    /\ ~is_history_output_good(hist_data).raised
    /\ is_history_output_good(hist_data).good
    /\ history_is_good' = TRUE
    /\ result' = [result EXCEPT !.method = "History"]
    /\ final_yaml_data' = Manifest(final_env_name(use_original_name, "cf_hist_"),
                                   history_new_deps(hist_data.deps, pip_section))
    /\ pc' = "write"
    /\ UNCHANGED <<toolvars, mainvars, fnvars, commands, hist_data, nobuild, pip_section,
                   list_export_output, notes_list, files>>

\* the history is not good: the fallback branch is taken
ClassifyFallback ==
    /\ pc = "classify"
    /\ ~is_history_output_good(hist_data).raised
    /\ ~is_history_output_good(hist_data).good
    /\ history_is_good' = FALSE
    /\ result' = [result EXCEPT !.method = "Fallback"]
    /\ pc' = "list_export"
    /\ UNCHANGED <<toolvars, mainvars, fnvars, commands, hist_data, nobuild, pip_section,
                   list_export_output, final_yaml_data, notes_list, files>>

\* mutant: after a failure the command is run again
RunListExportFails_retries ==
    /\ pc = "list_export"
    /\ Len(commands) < 6
    /\ commands' = Append(commands, "list --export")
    /\ UNCHANGED <<toolvars, pc, mainvars, fnvars, hist_data, nobuild, pip_section, history_is_good,
                   list_export_output, final_yaml_data, notes_list, result, files>>

\* conda list --export fails
RunListExportFails ==
    /\ pc = "list_export"
    /\ \E e \in CmdErrors :
          notes_list' = Append(notes_list, "ERROR processing with fallback: command failed")
    /\ list_export_output' = [how |-> "failed", lines |-> <<>>]
    /\ commands' = Append(commands, "list --export")
    /\ pc' = "write"
    /\ UNCHANGED <<toolvars, mainvars, fnvars, hist_data, nobuild, pip_section, history_is_good,
                   final_yaml_data, result, files>>

\* it succeeds, the raw output is archived, and no dependency is parsed from it
RunListExportEmpty ==
    /\ pc = "list_export"
    /\ \E out \in ListOutputsWith(use_original_name) :
          /\ list_is_empty(parse_conda_list_export(out))
          /\ list_export_output' = [how |-> "ok", lines |-> out]
    /\ \E saved \in BOOLEAN :
          files' = save_raw_output(files, "raw_list_export_outputs", "_list_export.txt", saved)
    /\ notes_list' =
          Append(notes_list, "ERROR processing with fallback: Parsed dependency list is empty.")
    /\ commands' = Append(commands, "list --export")
    /\ pc' = "write"
    /\ UNCHANGED <<toolvars, mainvars, fnvars, hist_data, nobuild, pip_section, history_is_good,
                   final_yaml_data, result>>

\* it succeeds, the raw output is archived, and the manifest is built from it
RunListExportParsed ==
    /\ pc = "list_export"
    /\ \E out \in ListOutputsWith(use_original_name) :
          LET dependencies_from_list == parse_conda_list_export(out)
              split == list_filter(dependencies_from_list, 1)
          IN  /\ ~list_is_empty(dependencies_from_list)
              /\ list_export_output' = [how |-> "ok", lines |-> out]
              /\ result' = [result EXCEPT !.kept = Len(split.kept),
                                          !.filtered = Len(split.filtered),
                                          !.filtered_list = split.filtered]
              /\ notes_list' = IF Len(split.kept) = 0
                               THEN Append(notes_list, "Kept 0 packages")
                               ELSE notes_list
              /\ final_yaml_data' =
                    Manifest(final_env_name(use_original_name, "cf_filt_"),
                             fallback_new_deps(dependencies_from_list, pip_section))
    /\ \E saved \in BOOLEAN :
          files' = save_raw_output(files, "raw_list_export_outputs", "_list_export.txt", saved)
    /\ commands' = Append(commands, "list --export")
    /\ pc' = "write"
    /\ UNCHANGED <<toolvars, mainvars, fnvars, hist_data, nobuild, pip_section, history_is_good>>

\* no manifest was built: nothing is written
WriteNothing ==
    /\ pc = "write"
    /\ final_yaml_data.none
    /\ result' = [result EXCEPT !.notes = notes_list]
    /\ pc' = "returned"
    /\ UNCHANGED <<toolvars, mainvars, fnvars, commands, hist_data, nobuild, pip_section, history_is_good,
                   list_export_output, final_yaml_data, notes_list, files>>

\* the manifest is written under the directory of its method
WriteFinal ==
    /\ pc = "write"
    /\ ~final_yaml_data.none
    /\ files' = files \cup
          {[dir |-> IF history_is_good THEN "from_history" ELSE "from_fallback", name |-> ".yml"]}
    /\ result' = [result EXCEPT !.status = "OK", !.notes = notes_list]
    /\ pc' = "returned"
    /\ UNCHANGED <<toolvars, mainvars, fnvars, commands, hist_data, nobuild, pip_section, history_is_good,
                   list_export_output, final_yaml_data, notes_list>>

\* writing the manifest fails
WriteFinalFails ==
    /\ pc = "write"
    /\ ~final_yaml_data.none
    /\ notes_list' = Append(notes_list, "ERROR writing final YAML")
    /\ result' = [result EXCEPT !.notes = Append(notes_list, "ERROR writing final YAML")]
    /\ pc' = "returned"
    /\ UNCHANGED <<toolvars, mainvars, fnvars, commands, hist_data, nobuild, pip_section, history_is_good,
                   list_export_output, final_yaml_data, files>>

Next ==
    \/ RunVersion
    \/ RunHistoryFails
    \/ RunHistoryUnparsable
    \/ RunHistoryParsed
    \/ RunFullExportFails
    \/ RunFullExportParsed
    \/ ClassifyRaises
    \/ ClassifyHistory
    \/ ClassifyFallback
    \/ RunListExportFails
    \/ RunListExportEmpty
    \/ RunListExportParsed
    \/ WriteNothing
    \/ WriteFinal
    \/ WriteFinalFails

Spec == Init /\ [][Next]_vars

(***************************************************************************)
(* is_history_output_good called on every history                          *)
(***************************************************************************)
InitHist ==
    /\ pc = "call is_history_output_good"
    /\ arg \in HistDocs
    /\ ret = NoVerdict
    /\ EnvIdle
    /\ ToolsIdle
    /\ MainIdle

CallHist ==
    /\ pc = "call is_history_output_good"
    /\ ret' = is_history_output_good(arg)
    /\ pc' = "returned is_history_output_good"
    /\ UNCHANGED <<toolvars, arg, envvars, mainvars>>

NextHist == CallHist

SpecHist == InitHist /\ [][NextHist]_vars

(***************************************************************************)
(* Properties of is_history_output_good                                    *)
(***************************************************************************)
HistReturned == pc = "returned is_history_output_good"

\* the argument is a mapping whose 'dependencies' value is a list
HasDepList == arg.t = "dict" /\ arg.hasdeps /\ arg.dt = "list"

\* the package name of a spec: what precedes its version qualifier
NameOf(s) ==
    LET u == Strip(s)
        stops == {i \in 1..Len(u) : u[i] \in {"=", "<", ">", "~", "!"} \cup SpaceChars}
    IN  IF stops = {} THEN u ELSE SubSeq(u, 1, SetMin(stops) - 1)

\* positions of the string entries matching the build-string pattern
BuildEntries(deps) == {i \in 1..Len(deps) : deps[i].t = "str" /\ BUILD_STRING_RE(deps[i].s)}

\* positions of the string entries naming an IgnoreSet package
IgnoredEntries(deps) ==
    {i \in 1..Len(deps) : deps[i].t = "str" /\ NameOf(deps[i].s) \in FILTER_OUT_PACKAGES}

\* C5: a history of more than 50 entries is not clean whatever its entries,
\* and the reason carries the actual count and the threshold.
C5_LongHistoryNotClean ==
    (HistReturned /\ HasDepList /\ Len(arg.deps) > 50) =>
        /\ ~ret.raised
        /\ ~ret.good
        /\ ret.reason.kind = "Dependency count > threshold"
        /\ ret.reason.count = Len(arg.deps)
        /\ ret.reason.threshold = 50

C5_Witness ==
    /\ HistReturned /\ HasDepList
    /\ Len(arg.deps) = 51
    /\ arg.deps[1] = D_python310 /\ arg.deps[2] = D_pandas
    /\ ~ret.good /\ ret.reason.count = 51

\* C6 as stated: a history with an entry matching the build-string pattern is
\* not clean and the reason names such an entry.
C6_BuildEntryNamed ==
    (HistReturned /\ HasDepList /\ BuildEntries(arg.deps) # {}) =>
        /\ ~ret.good
        /\ ret.reason.kind = "Found build string in"
        /\ \E i \in BuildEntries(arg.deps) : ret.reason.text = arg.deps[i].s

\* C6 amended: such a history is not clean; the reason names the first
\* matching entry when the history has at most 50 entries and no entry
\* before that one names an IgnoreSet package.
C6_BuildEntryNotClean ==
    (HistReturned /\ HasDepList /\ BuildEntries(arg.deps) # {}) =>
        LET first == SetMin(BuildEntries(arg.deps)) IN
        /\ ~ret.raised
        /\ ~ret.good
        /\ (Len(arg.deps) <= 50 /\ \A i \in IgnoredEntries(arg.deps) : i >= first) =>
              /\ ret.reason.kind = "Found build string in"
              /\ ret.reason.text = arg.deps[first].s

C6_Witness ==
    /\ HistReturned /\ HasDepList
    /\ arg.deps = <<D_python310, D_numpy_hash>>
    /\ ~ret.good
    /\ ret.reason.text = D_numpy_hash.s

\* C7: a history of at most 50 entries (50 and none included) with no
\* build-string entry and no entry naming an IgnoreSet package is clean,
\* with the reason "Clean".
C7_CleanHistory ==
    (/\ HistReturned /\ HasDepList
     /\ Len(arg.deps) <= 50
     /\ BuildEntries(arg.deps) = {}
     /\ IgnoredEntries(arg.deps) = {}) =>
        /\ ~ret.raised
        /\ ret.good
        /\ ret.reason.kind = "Clean"

C7_Witness ==
    /\ HistReturned /\ HasDepList
    /\ Len(arg.deps) = 50
    /\ arg.deps[1] = D_pandas
    /\ ret.good

\* C8: is_history_output_good raises nothing, and a history that is null,
\* has no 'dependencies' key or has one that is no list is not clean with
\* the reason "Invalid history format".
C8_NeverRaises ==
    HistReturned =>
        /\ ~ret.raised
        /\ ~HasDepList => (~ret.good /\ ret.reason.kind = "Invalid history format")

\* C9: in a history of at most 50 entries, an entry whose package name
\* (before any of =, <, >, >=, <=, ~=) is in the IgnoreSet makes the history
\* not clean; when no build-string entry is reported instead, the reason
\* names the package of the first such entry.
C9_IgnoredPackageNotClean ==
    (/\ HistReturned /\ HasDepList
     /\ Len(arg.deps) <= 50
     /\ IgnoredEntries(arg.deps) # {}) =>
        /\ ~ret.good
        /\ BuildEntries(arg.deps) = {} =>
              /\ ret.reason.kind = "Found low-level package"
              /\ ret.reason.text = NameOf(arg.deps[SetMin(IgnoredEntries(arg.deps))].s)

(***************************************************************************)
(* get_pip_deps_from_export called on every full export                    *)
(***************************************************************************)
I_flask_ge == StrItem(<<"f","l","a","s","k"," ",">","="," ","2",".","0">>)

I_attrs_compat == StrItem(<<"a","t","t","r","s","~","=","2","3",".","1">>)

I_idna_lt == StrItem(<<"i","d","n","a","<","4">>)

I_rich_gt == StrItem(<<"r","i","c","h",">","1","3">>)

I_toml_le == StrItem(<<"t","o","m","l","<","=","0",".","1","0">>)

PipPool ==
    {I_requests_pinned, I_nota, I_comment, I_flask_ge, I_attrs_compat,
     I_idna_lt, I_rich_gt, I_toml_le, IntItem}

\* full exports with one nested pip list, and with a second one after it
PipDocs ==
    {DictDeps(<<D_python310, DictDep(S_pip, "list", l)>>) : l \in SeqsUpTo(PipPool, MaxPipLen)}
    \cup {DictDeps(<<DictDep(S_pip, "list", l), D_numpy, DictDep(S_pip, "list", <<I_nota>>)>>) :
              l \in SeqsUpTo(PipPool, 1)}
    \cup {NoneDoc, StrDoc(S_pip), DictNoDeps(TRUE), DictBadDeps("str"),
          DictDeps(<<D_python310, D_numpy>>),
          DictDeps(<<D_python310, DictDep(S_pip, "none", <<>>)>>)}

InitPip ==
    /\ pc = "call get_pip_deps_from_export"
    /\ arg \in PipDocs
    /\ ret = NoPip
    /\ EnvIdle
    /\ ToolsIdle
    /\ MainIdle

CallPip ==
    /\ pc = "call get_pip_deps_from_export"
    /\ ret' = get_pip_deps_from_export(arg)
    /\ pc' = "returned get_pip_deps_from_export"
    /\ UNCHANGED <<toolvars, arg, envvars, mainvars>>

NextPip == CallPip

SpecPip == InitPip /\ [][NextPip]_vars

(***************************************************************************)
(* Properties of get_pip_deps_from_export                                  *)
(***************************************************************************)
PipReturned == pc = "returned get_pip_deps_from_export"

\* positions of the nested pip groups of a dependency list
PipGroups(deps) == {i \in 1..Len(deps) : deps[i].t = "dict" /\ deps[i].s = S_pip}

\* the characters of a requirement name
NameChars == WordChars \cup {"-", "."}

\* the bare name of a requirement: its leading run of name characters
BareName(s) ==
    LET u == Strip(s)
        stops == {i \in 1..Len(u) : u[i] \notin NameChars}
    IN  IF stops = {} THEN u ELSE SubSeq(u, 1, SetMin(stops) - 1)

\* the bare names of the string entries of a pip list, the empty ones dropped
RECURSIVE BareNames(_)
BareNames(l) ==
    IF l = <<>> THEN <<>>
    ELSE (IF l[1].t = "str" /\ BareName(l[1].s) # <<>> THEN <<BareName(l[1].s)>> ELSE <<>>)
         \o BareNames(From(l, 2))

\* C10: the result holds the string entries of the first nested pip list in
\* their order, each reduced to its bare requirement name (comment and
\* version qualifier removed), without the entries that become empty.
C10_PipNamesCleaned ==
    (/\ PipReturned
     /\ arg.t = "dict" /\ arg.dt = "list"
     /\ PipGroups(arg.deps) # {}
     /\ arg.deps[SetMin(PipGroups(arg.deps))].vt = "list") =>
        LET names == BareNames(arg.deps[SetMin(PipGroups(arg.deps))].l)
        IN  names # <<>> => (~ret.none /\ ret.pip = names)

C10_Witness ==
    /\ PipReturned
    /\ arg.deps = <<D_python310, DictDep(S_pip, "list", <<I_requests_pinned, I_nota>>)>>
    /\ ret.pip = <<<<"r","e","q","u","e","s","t","s">>, I_nota.s>>

\* the string entries of a pip list
StrEntries(l) == {i \in 1..Len(l) : l[i].t = "str"}

\* the export holds a nested pip list with an entry that keeps a name
HasPipNames(d) ==
    /\ d.t = "dict" /\ d.dt = "list"
    /\ PipGroups(d.deps) # {}
    /\ d.deps[SetMin(PipGroups(d.deps))].vt = "list"
    /\ BareNames(d.deps[SetMin(PipGroups(d.deps))].l) # <<>>

\* C11: the result is null, never an empty pip list, when the export is no
\* mapping, has no pip section, or every pip entry cleans to empty; a result
\* that is not null holds non-empty strings only, each the cleaned form of a
\* string entry of the pip list, so that no non-string entry appears in it.
C11_NullNeverEmpty ==
    PipReturned =>
        /\ ~HasPipNames(arg) => ret.none
        /\ ~ret.none =>
              LET l == arg.deps[SetMin(PipGroups(arg.deps))].l IN
              /\ ret.pip # <<>>
              /\ Len(ret.pip) <= Cardinality(StrEntries(l))
              /\ \A k \in 1..Len(ret.pip) :
                    /\ ret.pip[k] # <<>>
                    /\ \E i \in StrEntries(l) : ret.pip[k] = BareName(l[i].s)

C11_Witness ==
    /\ PipReturned
    /\ arg.deps = <<D_python310, DictDep(S_pip, "list", <<I_comment, IntItem>>)>>
    /\ ret.none

(***************************************************************************)
(* Properties of process_environment                                       *)
(***************************************************************************)
\* a manifest has been built
Built == pc \in {"write", "returned"} /\ ~final_yaml_data.none

IsPipGroup(dep) == dep.t = "dict" /\ dep.s = S_pip

\* a dependency list without its last element when that is a nested pip group
TopLevel(deps) ==
    IF deps # <<>> /\ IsPipGroup(deps[Len(deps)]) THEN SubSeq(deps, 1, Len(deps) - 1) ELSE deps

\* a string entry whose package name is n
Names(dep, n) == dep.t = "str" /\ NameOf(dep.s) = n

\* the first entry of deps naming python, as a list of at most one entry
FirstPython(deps) ==
    LET pys == {i \in 1..Len(deps) : Names(deps[i], S_python)}
    IN  IF pys = {} THEN <<>> ELSE <<deps[SetMin(pys)]>>

\* bare n unless an entry of deps names it
BareUnlessNamed(deps, n) ==
    IF \E i \in 1..Len(deps) : Names(deps[i], n) THEN <<>> ELSE <<StrDep(n)>>

\* neither a python, pip, setuptools or wheel entry nor a nested pip group
IsRemaining(dep) ==
    /\ ~IsPipGroup(dep)
    /\ dep.t = "str" => NameOf(dep.s) \notin HandledNames

\* C1: from a clean history the dependency list is the history's python
\* spec, then bare pip, setuptools and wheel for those the history does not
\* name, then the remaining history entries in their order; the method is
\* History.
C1_HistoryManifest ==
    (Built /\ history_is_good) =>
        /\ result.method = "History"
        /\ TopLevel(final_yaml_data.dependencies) =
              FirstPython(hist_data.deps)
              \o BareUnlessNamed(hist_data.deps, S_pip)
              \o BareUnlessNamed(hist_data.deps, S_setuptools)
              \o BareUnlessNamed(hist_data.deps, S_wheel)
              \o SelectSeq(hist_data.deps, IsRemaining)

\* the parsed entries of the list export that was read
ParsedList == parse_conda_list_export(list_export_output.lines)

\* a parsed entry name=version for python
IsPythonVersion(dep) == NameOf(dep) = S_python /\ Contains(dep, <<"=">>)

\* a parsed entry the fallback manifest keeps
IsKept(dep) == NameOf(dep) \notin (FILTER_OUT_PACKAGES \cup {S_python})

\* a parsed entry dropped for being in the IgnoreSet
IsFiltered(dep) ==
    NameOf(dep) \in (FILTER_OUT_PACKAGES \ {S_pip, S_setuptools, S_wheel})

StrDeps(s) == [i \in 1..Len(s) |-> StrDep(s[i])]

\* C2: from a history that is not clean the dependency list is the list
\* export's python spec, then bare pip, setuptools and wheel, then the other
\* parsed entries whose name is not in the IgnoreSet, in their order; kept
\* counts those, filtered the entries dropped for being in the IgnoreSet.
C2_FallbackManifest ==
    (Built /\ ~history_is_good) =>
        LET py == SelectSeq(ParsedList, IsPythonVersion)
            kept == SelectSeq(ParsedList, IsKept)
        IN  /\ result.method = "Fallback"
            /\ TopLevel(final_yaml_data.dependencies) =
                  StrDeps((IF py = <<>> THEN <<>> ELSE <<py[1]>>)
                          \o <<S_pip, S_setuptools, S_wheel>>
                          \o kept)
            /\ result.kept = Len(kept)
            /\ result.filtered = Len(SelectSeq(ParsedList, IsFiltered))

C2_Witness ==
    /\ pc = "returned"
    /\ list_export_output.lines = <<L_python, L_numpy, L_six>>
    /\ TopLevel(final_yaml_data.dependencies) =
          StrDeps(<< <<"p","y","t","h","o","n","=","3",".","9">>,
                     S_pip, S_setuptools, S_wheel,
                     <<"n","u","m","p","y","=","1",".","2","4">> >>)
    /\ result.kept = 1
    /\ result.filtered = 1
    /\ result.method = "Fallback"

\* a line that is blank or a comment
IsNoPackageLine(line) == Strip(line) = <<>> \/ Strip(line)[1] = "#"

NoPackageLine(lines) == \A i \in 1..Len(lines) : IsNoPackageLine(lines[i])

ManifestFiles == {f \in files : f.dir \in {"from_history", "from_fallback"}}

\* C3: when the list export holds no package line the environment ends with
\* status ERROR and an error note and no manifest file is written; no
\* fallback manifest comes from a list export without a package line.
C3_EmptyFallbackFails ==
    /\ (pc = "returned" /\ list_export_output.how = "ok"
            /\ NoPackageLine(list_export_output.lines)) =>
          /\ result.status = "ERROR"
          /\ \E i \in 1..Len(result.notes) :
                result.notes[i] = "ERROR processing with fallback: Parsed dependency list is empty."
          /\ final_yaml_data.none
          /\ ManifestFiles = {}
    /\ (~final_yaml_data.none /\ result.method = "Fallback") =>
          ~NoPackageLine(list_export_output.lines)

C3_Witness ==
    /\ pc = "returned"
    /\ list_export_output = [how |-> "ok", lines |-> <<L_comment, L_blank>>]
    /\ result.status = "ERROR"
    /\ result.method = "Fallback"

\* the full export failed, did not parse, or has no pip marker
NoPipSource ==
    \/ nobuild.how \in {"failed", "unparsable"}
    \/ nobuild.how = "ok" /\ PipGroups(nobuild.data.deps) = {}

\* C4: when the full export fails, does not parse or has no pip marker, the
\* chosen path is still completed: a clean history or a non-empty list export
\* gives a manifest, and that manifest has no nested pip group.
C4_PipBestEffort ==
    (NoPipSource /\ pc \in {"write", "returned"}) =>
        /\ history_is_good => ~final_yaml_data.none
        /\ (list_export_output.how = "ok" /\ ~NoPackageLine(list_export_output.lines)) =>
              ~final_yaml_data.none
        /\ \A i \in 1..Len(final_yaml_data.dependencies) :
              ~IsPipGroup(final_yaml_data.dependencies[i])

C4_Witness ==
    /\ pc = "returned"
    /\ nobuild.how = "failed"
    /\ hist_data.deps = <<D_numpy, D_pipgroup>>
    /\ result.status = "OK"
    /\ result.method = "History"

\* positions of the top-level entries of a dependency list naming n
NamedAt(deps, n) == {i \in 1..Len(TopLevel(deps)) : Names(TopLevel(deps)[i], n)}

\* C12: in a manifest built from a clean history each of pip, setuptools and
\* wheel is named by exactly one top-level entry: the history's entry when
\* the history names the package, a bare entry otherwise.
C12_TrioExactlyOnce ==
    (Built /\ history_is_good) =>
        \A n \in {S_pip, S_setuptools, S_wheel} :
            LET at == NamedAt(final_yaml_data.dependencies, n)
                hist == NamedAt(hist_data.deps, n)
            IN  /\ Cardinality(at) = 1
                /\ \A i \in at :
                      final_yaml_data.dependencies[i] =
                          IF hist = {} THEN StrDep(n) ELSE hist_data.deps[SetMin(hist)]

\* the entries of the source the manifest was built from
ChosenSource == IF history_is_good THEN hist_data.deps ELSE StrDeps(ParsedList)

\* C13: when the chosen source lists a python spec, bare or versioned, the
\* first such spec is the first element of the manifest's dependency list
\* and no later element names python.
C13_PythonFirstOnly ==
    (Built /\ FirstPython(ChosenSource) # <<>>) =>
        /\ final_yaml_data.dependencies[1] = FirstPython(ChosenSource)[1]
        /\ \A i \in 2..Len(final_yaml_data.dependencies) :
              ~Names(final_yaml_data.dependencies[i], S_python)

\* C14: a manifest holds at most one nested pip group, and only as the last
\* element of its dependency list; it holds one exactly when the pip section
\* extracted from the full export is not null, and the group is that section,
\* never the nested pip group of the history.
C14_PipGroupTrailing ==
    Built =>
        LET deps == final_yaml_data.dependencies
            groups == PipGroups(deps)
        IN  /\ Cardinality(groups) <= 1
            /\ groups \subseteq {Len(deps)}
            /\ (groups # {}) <=> ~pip_section.none
            /\ \A i \in groups :
                  /\ deps[i].vt = "list"
                  /\ Len(deps[i].l) = Len(pip_section.pip)
                  /\ \A k \in 1..Len(deps[i].l) :
                        deps[i].l[k] = StrItem(pip_section.pip[k])

C14_Witness ==
    /\ pc = "returned"
    /\ history_is_good
    /\ hist_data.deps = <<D_numpy, D_pipgroup>>
    /\ ~pip_section.none
    /\ PipGroups(final_yaml_data.dependencies) = {Len(final_yaml_data.dependencies)}
    /\ final_yaml_data.dependencies[Len(final_yaml_data.dependencies)].l =
          <<StrItem(<<"r","e","q","u","e","s","t","s">>), I_nota>>

(***************************************************************************)
(* parse_conda_list_export called on every listing                         *)
(***************************************************************************)
\* a package line with blanks around it
L_zlib_indented == <<" "," ","z","l","i","b","=","1",".","2",".","1","3","=","h","5","e","e","e","1","8","b","_","0"," ">>

ParseLinePool == {L_comment, L_blank, L_numpy, L_pandas2, S_python, L_zlib_indented}

ParseTexts == SeqsUpTo(ParseLinePool, MaxParseLen)

InitParse ==
    /\ pc = "call parse_conda_list_export"
    /\ arg \in ParseTexts
    /\ ret = <<>>
    /\ EnvIdle
    /\ ToolsIdle
    /\ MainIdle

CallParse ==
    /\ pc = "call parse_conda_list_export"
    /\ ret' = parse_conda_list_export(arg)
    /\ pc' = "returned parse_conda_list_export"
    /\ UNCHANGED <<toolvars, arg, envvars, mainvars>>

NextParse == CallParse

SpecParse == InitParse /\ [][NextParse]_vars

ParseReturned == pc = "returned parse_conda_list_export"

\* what a line stands for: nothing for a blank or comment line, name=version
\* for name=version=build, and the line itself for name=version and name
ExpectedEntry(line) ==
    LET u == Strip(line)
        eqs == {i \in 1..Len(u) : u[i] = "="}
    IN  IF IsNoPackageLine(line) THEN <<>>
        ELSE IF Cardinality(eqs) = 2 THEN <<SubSeq(u, 1, SetMax(eqs) - 1)>>
        ELSE <<u>>

RECURSIVE ExpectedEntries(_)
ExpectedEntries(lines) ==
    IF lines = <<>> THEN <<>>
    ELSE ExpectedEntry(lines[1]) \o ExpectedEntries(From(lines, 2))

\* C15: in line order, name=version=build gives name=version, name=version
\* gives name=version, a bare name gives the name, and blank lines and lines
\* starting with # give nothing.
C15_ParseMapsLines == ParseReturned => ret = ExpectedEntries(arg)

\* the raw history export has been archived
HistoryArchived == \E f \in files : f.dir = "raw_history_outputs"

\* a second raw output has been archived next to the history's
SecondArchived ==
    \E f \in files : f.dir \notin {"raw_history_outputs", "from_history", "from_fallback"}

\* C16: when the history export and the full export both succeed, the raw
\* text of both is archived, on the history path and on the fallback path
\* (stated for the runs in which the history's archive file could be
\* written).
C16_BothSourcesArchived ==
    (pc = "returned" /\ nobuild.how = "ok" /\ HistoryArchived) => SecondArchived

\* C17: when the history export fails or does not parse, the environment is
\* over at once: status ERROR, a note naming the history failure, no manifest
\* built or written, the history export run once and neither the full export
\* nor the list export run; nothing runs after process_environment returned.
C17_HistoryFailureIsFinal ==
    [][/\ pc # "returned"
       /\ (RunHistoryFails \/ RunHistoryUnparsable) =>
             /\ pc' = "returned"
             /\ result'.status = "ERROR"
             /\ result'.method = "N/A"
             /\ result'.notes = <<"Failed to get/parse history">>
             /\ final_yaml_data'.none
             /\ \A f \in files' : f.dir \notin {"from_history", "from_fallback"}
             /\ commands' = <<"--version", "env export --from-history">>]_vars

C17_Witness ==
    /\ pc = "returned"
    /\ commands = <<"--version", "env export --from-history">>
    /\ result.status = "ERROR"
    /\ result.notes = <<"Failed to get/parse history">>
    /\ files = {[dir |-> "raw_history_outputs", name |-> "_history.yml"]}

(***************************************************************************)
(* __main__: the batch driver                                              *)
(***************************************************************************)
EnvPaths == {"envs/a", "envs/b", "envs/c"}

\* the day of the last modification; NoMtime stands for None
NoMtime == 0

Mtimes == {NoMtime, 1, 2}

\* an element of found_envs_data but for its creation conda version
EnvData(env_path, last_modified) == [env_path |-> env_path, last_modified |-> last_modified]

\* what find_conda_environments can return: every path at most once
Discovered ==
    {s \in SeqsUpTo({EnvData(e, t) : e \in EnvPaths, t \in Mtimes}, MaxEnvs) :
        \A i, j \in 1..Len(s) : i # j => s[i].env_path # s[j].env_path}

\* datetime.max, as a day later than every Mtime
datetime_max == 3

\* key=lambda x: x[1] if x[1] else datetime.max
sort_key(x) == IF x.last_modified = NoMtime THEN datetime_max ELSE x.last_modified

\* x put into the sorted list t before the first element that is not smaller
insert_sorted(x, t) ==
    LET later == {i \in 1..Len(t) : sort_key(t[i]) >= sort_key(x)}
        at == IF later = {} THEN Len(t) + 1 ELSE SetMin(later)
    IN  SubSeq(t, 1, at - 1) \o <<x>> \o From(t, at)

\* list.sort(key=...): a stable sort
RECURSIVE sorted_by_key(_)
sorted_by_key(l) ==
    IF l = <<>> THEN <<>> ELSE insert_sorted(l[1], sorted_by_key(From(l, 2)))

\* the names bound in the module's scope when the for loop runs
MainNames ==
    {"args", "output_dir_main", "output_dir_history_ok", "output_dir_fallback",
     "archive_dir_history", "archive_dir_list", "conda_exe_path", "resolved_path",
     "search_paths_str", "found_envs_data", "all_results",
     "env_path", "last_modified", "creation_conda_ver"}

\* the names read to build the arguments of the call of process_environment
CallArguments ==
    <<"env_path", "output_dir_history_ok", "output_dir_fallback",
      "archive_dir_history", "archive_list_dir", "conda_exe_path", "args", "args">>

\* building the arguments raises NameError
NameErrorRaised == \E i \in 1..Len(CallArguments) : CallArguments[i] \notin MainNames

\* how a call of process_environment ends: it raises, or returns a result
Outcome(raised, status, method) == [raised |-> raised, status |-> status, method |-> method]

ProcessOutcomes ==
    {Outcome(TRUE, "", ""),
     Outcome(FALSE, "OK", "History"), Outcome(FALSE, "OK", "Fallback"),
     Outcome(FALSE, "ERROR", "History"), Outcome(FALSE, "ERROR", "Fallback"),
     Outcome(FALSE, "ERROR", "N/A")}

\* a summary row but for the fields that do not tell rows apart
Row(env, status, method, notes) ==
    [env_path |-> env.env_path, last_modified |-> env.last_modified,
     status |-> status, method |-> method, notes |-> notes]

\* the row appended by the except clause of the loop
CriticalRow(env, notes) == Row(env, "CRITICAL ERROR", "N/A", notes)

InitMain ==
    /\ pc = "make directories"
    /\ LoopIdle
    /\ use_original_name \in BOOLEAN
    /\ FnIdle
    /\ EnvIdle
    /\ ToolsIdle

\* creating the output directories raises: sys.exit(1)
MainDirectoriesFail ==
    /\ pc = "make directories"
    /\ pc' = "exit 1"
    /\ UNCHANGED <<toolvars, mainvars, fnvars, envvars>>

\* the output directories exist or are created
MainDirectoriesMade ==
    /\ pc = "make directories"
    /\ pc' = "locate conda"
    /\ UNCHANGED <<toolvars, mainvars, fnvars, envvars>>

\* the checks on --conda-exe pass: is_file says that the argument is a file,
\* has_sep that it holds a path separator, resolved that shutil.which finds it
conda_located(is_file, has_sep, resolved) ==
    IF ~is_file /\ ~has_sep THEN resolved ELSE is_file

\* the conda executable is not found: sys.exit(1)
MainCondaNotFound ==
    /\ pc = "locate conda"
    /\ \E is_file, has_sep, resolved \in BOOLEAN : ~conda_located(is_file, has_sep, resolved)
    /\ pc' = "exit 1"
    /\ UNCHANGED <<toolvars, mainvars, fnvars, envvars>>

\* the conda executable is found
MainCondaFound ==
    /\ pc = "locate conda"
    /\ \E is_file, has_sep, resolved \in BOOLEAN : conda_located(is_file, has_sep, resolved)
    /\ pc' = "discover"
    /\ UNCHANGED <<toolvars, mainvars, fnvars, envvars>>

\* found_envs_data = find_conda_environments(search_paths_str)
MainDiscover ==
    /\ pc = "discover"
    /\ found_envs_data' \in Discovered
    /\ pc' = "main"
    /\ UNCHANGED <<toolvars, env_index, handed, all_results, use_original_name, fnvars, envvars>>

\* no environment was found
MainNoEnvironments ==
    /\ pc = "main"
    /\ found_envs_data = <<>>
    /\ pc' = "main done"
    /\ UNCHANGED <<toolvars, mainvars, fnvars, envvars>>

\* found_envs_data.sort(...)
MainSort ==
    /\ pc = "main"
    /\ found_envs_data # <<>>
    /\ found_envs_data' = sorted_by_key(found_envs_data)
    /\ pc' = "main loop"
    /\ UNCHANGED <<toolvars, env_index, handed, all_results, use_original_name, fnvars, envvars>>

\* mutant: the first failure of an environment ends the script
MainIteration_aborts ==
    /\ pc = "main loop"
    /\ env_index < Len(found_envs_data)
    /\ pc' = "exit 1"
    /\ UNCHANGED <<toolvars, mainvars, fnvars, envvars>>

\* one turn of the for loop: the try with the call, and its except clause
MainIteration ==
    /\ pc = "main loop"
    /\ env_index < Len(found_envs_data)
    /\ env_index' = env_index + 1
    /\ LET env == found_envs_data[env_index + 1] IN
       IF NameErrorRaised
       THEN /\ handed' = handed
            /\ all_results' =
                  Append(all_results, CriticalRow(env, "name 'archive_list_dir' is not defined"))
       ELSE \E o \in ProcessOutcomes :
               /\ handed' = Append(handed, [env_path |-> env.env_path, outcome |-> o])
               /\ all_results' =
                     Append(all_results,
                            IF o.raised THEN CriticalRow(env, "raised by process_environment")
                            ELSE Row(env, o.status, o.method, ""))
    /\ UNCHANGED <<toolvars, pc, found_envs_data, use_original_name, fnvars, envvars>>

\* the numbers of the final summary
final_summary(rows) ==
    LET total_envs == Len(rows)
        ok_count == Cardinality({i \in 1..Len(rows) : rows[i].status = "OK"})
        fallback_count == Cardinality({i \in 1..Len(rows) : rows[i].method = "Fallback"})
    IN  [total_envs |-> total_envs,
         ok_count |-> ok_count,
         fallback_count |-> fallback_count,
         history_ok_count |-> ok_count - fallback_count,
         error_count |-> total_envs - ok_count]

\* the loop is over: write_summary_csv and the final summary
MainSummary ==
    /\ pc = "main loop"
    /\ env_index = Len(found_envs_data)
    /\ ret' = final_summary(all_results)
    /\ pc' = "main done"
    /\ UNCHANGED <<toolvars, mainvars, arg, envvars>>

NextMain ==
    \/ MainDirectoriesFail
    \/ MainDirectoriesMade
    \/ MainCondaNotFound
    \/ MainCondaFound
    \/ MainDiscover
    \/ MainNoEnvironments
    \/ MainSort
    \/ MainIteration
    \/ MainSummary

SpecMain == InitMain /\ [][NextMain]_vars

\* C18: every discovered environment is handed to process_environment once,
\* in the order of the list, and has one summary row carrying the status and
\* method process_environment returned; the loop goes through the whole list
\* whatever happened to the environments before; a row has the status
\* CRITICAL ERROR only when process_environment raised.
C18_EveryEnvironmentOnce ==
    (pc \in {"main loop", "main done"}) =>
        /\ Len(handed) = env_index
        /\ Len(all_results) = env_index
        /\ pc = "main done" => env_index = Len(found_envs_data)
        /\ \A i \in 1..env_index :
              /\ i <= Len(handed) => handed[i].env_path = found_envs_data[i].env_path
              /\ i <= Len(all_results) =>
                    all_results[i].env_path = found_envs_data[i].env_path
              /\ (i <= Len(handed) /\ i <= Len(all_results)) =>
                    /\ (all_results[i].status = "CRITICAL ERROR") <=> handed[i].outcome.raised
                    /\ ~handed[i].outcome.raised =>
                          /\ all_results[i].status = handed[i].outcome.status
                          /\ all_results[i].method = handed[i].outcome.method

\* the outputs of the three export commands, as the run recorded them, and
\* the flag of the run
ExportInputs == <<hist_data, nobuild, list_export_output, use_original_name>>

\* the manifest, method and counts as a function of the export outputs alone
Determined(inputs) ==
    LET hist == inputs[1]
        full == inputs[2]
        list == inputs[3]
        section == IF full.how = "ok" THEN get_pip_deps_from_export(full.data) ELSE NoPip
        parsed == parse_conda_list_export(list.lines)
        split == list_filter(parsed, 1)
    IN  IF is_history_output_good(hist).good
        THEN [manifest |-> Manifest(final_env_name(inputs[4], "cf_hist_"),
                                    history_new_deps(hist.deps, section)),
              method |-> "History", kept |-> 0, filtered |-> 0]
        ELSE IF list.how = "ok" /\ parsed # <<>>
        THEN [manifest |-> Manifest(final_env_name(inputs[4], "cf_filt_"),
                                    fallback_new_deps(parsed, section)),
              method |-> "Fallback", kept |-> Len(split.kept), filtered |-> Len(split.filtered)]
        ELSE [manifest |-> NoManifest, method |-> "Fallback", kept |-> 0, filtered |-> 0]

C20_NoIgnoredPackage ==
    Built =>
        \A i \in 1..Len(TopLevel(final_yaml_data.dependencies)) :
            LET dep == TopLevel(final_yaml_data.dependencies)[i] IN
            dep.t = "str" =>
                NameOf(dep.s) \notin (FILTER_OUT_PACKAGES \ {S_pip, S_setuptools, S_wheel})

\* the history export was parsed (the full export was run after it) and its
\* archive file could not be written
HistoryArchiveFailed == Len(commands) >= 3 /\ ~HistoryArchived

\* the list export succeeded and its archive file could not be written
ListArchiveFailed ==
    /\ list_export_output.how = "ok"
    /\ \A f \in files : f.dir # "raw_list_export_outputs"

\* a manifest was built and its file could not be written
ManifestWriteFailed == pc = "returned" /\ ~final_yaml_data.none /\ ManifestFiles = {}

\* C21: when the write of a raw archive file or of the manifest file fails,
\* process_environment still returns, and the status it reports is not OK.
C21_WriteFailureNotOK ==
    (pc = "returned" /\ (HistoryArchiveFailed \/ ListArchiveFailed \/ ManifestWriteFailed)) =>
        result.status # "OK"

\* C22: the output directories and the conda executable are checked first;
\* when a check fails the script exits with code 1 before any environment is
\* discovered and before any conda command is run; the script exits with
\* code 1 from these two checks only, so that once they have passed every
\* step leads on towards the end of the batch.
C22_FatalChecksFirst ==
    [][/\ (MainDirectoriesFail \/ MainCondaNotFound) =>
             /\ pc' = "exit 1"
             /\ found_envs_data' = <<>> /\ handed' = <<>> /\ all_results' = <<>>
             /\ commands' = <<>>
       /\ pc' = "exit 1" => pc \in {"make directories", "locate conda"}
       /\ pc' = "discover" => pc = "locate conda"
       /\ pc' = "locate conda" => pc = "make directories"
       /\ found_envs_data' # found_envs_data => pc \in {"discover", "main"}
       /\ pc \notin {"exit 1", "main done"}]_vars

C22_Witness ==
    /\ pc = "main done"
    /\ Len(found_envs_data) = 2
    /\ Len(all_results) = 2
    /\ all_results[1].status = "CRITICAL ERROR"

\* C23: once the history is classified the method is History when
\* is_history_output_good returned clean and Fallback when it did not; a
\* History manifest is named with the prefix cf_hist_ and written under
\* from_history only, a Fallback manifest with cf_filt_ under from_fallback
\* only, the prefix being left out with --use-original-name; kept and
\* filtered are 0 for History; without a method there is no manifest.
C23_MethodAgrees ==
    /\ result.method = "N/A" => (final_yaml_data.none /\ ManifestFiles = {})
    /\ result.method # "N/A" =>
          LET good == is_history_output_good(hist_data).good
              prefix == IF good THEN "cf_hist_" ELSE "cf_filt_"
              dir == IF good THEN "from_history" ELSE "from_fallback"
          IN  /\ result.method = (IF good THEN "History" ELSE "Fallback")
              /\ \A f \in ManifestFiles : f.dir = dir
              /\ ~final_yaml_data.none =>
                    final_yaml_data.name = (IF use_original_name THEN "" ELSE prefix)
              /\ good => (result.kept = 0 /\ result.filtered = 0)

C23_Witness ==
    /\ pc = "returned"
    /\ use_original_name
    /\ result.method = "Fallback"
    /\ result.status = "OK"
    /\ final_yaml_data.name = ""
    /\ [dir |-> "from_fallback", name |-> ".yml"] \in files

(***************************************************************************)
(* safe_filename_base computed for two environment paths                   *)
(***************************************************************************)
\* str.replace(old, new) for a one-character old
replace(s, old, new) == [i \in 1..Len(s) |-> IF s[i] = old THEN new ELSE s[i]]

\* str.strip(chars)
strip_chars(s, chars) ==
    LET keep == {i \in 1..Len(s) : s[i] \notin chars}
    IN  IF keep = {} THEN <<>> ELSE SubSeq(s, SetMin(keep), SetMax(keep))

\* path2str(env_path).replace(os.path.sep, '_').strip('_')
safe_filename_base(env_path) == strip_chars(replace(env_path, "/", "_"), {"_"})

\* names of directories
PathComponents == {<<"a">>, <<"b">>, <<"a","_","b">>, <<"e","n","v","s">>}

\* the absolute path of the components cs
RECURSIVE PathOf(_)
PathOf(cs) == IF cs = <<>> THEN <<>> ELSE <<"/">> \o cs[1] \o PathOf(From(cs, 2))

EnvPathStrings == {PathOf(cs) : cs \in SeqsUpTo(PathComponents, MaxDepth) \ {<<>>}}

InitBase ==
    /\ pc = "call safe_filename_base"
    /\ arg \in {pair \in EnvPathStrings \X EnvPathStrings : pair[1] # pair[2]}
    /\ ret = <<>>
    /\ EnvIdle
    /\ ToolsIdle
    /\ MainIdle

CallBase ==
    /\ pc = "call safe_filename_base"
    /\ ret' = <<safe_filename_base(arg[1]), safe_filename_base(arg[2])>>
    /\ pc' = "returned safe_filename_base"
    /\ UNCHANGED <<toolvars, arg, envvars, mainvars>>

NextBase == CallBase

SpecBase == InitBase /\ [][NextBase]_vars

\* C24: two distinct environment paths give distinct file name bases, so
\* that the archive and manifest files of one environment are not those of
\* another.
C24_DistinctFileNames ==
    (pc = "returned safe_filename_base" /\ arg[1] # arg[2]) => ret[1] # ret[2]

\* a parsed entry named python, pip, setuptools or wheel
IsHandledApart(dep) == NameOf(dep) \in HandledNames

\* a parsed entry that is not
IsCounted(dep) == ~IsHandledApart(dep)

\* C25: in a fallback manifest bare pip, setuptools and wheel come right
\* after the python spec, or first when there is none, and each of the three
\* is named by no other top-level entry, also when the list export lists
\* them; the entries of the list export named python, pip, setuptools or
\* wheel are counted neither as kept nor as filtered.
C25_FallbackTrio ==
    (Built /\ ~history_is_good) =>
        LET deps == TopLevel(final_yaml_data.dependencies)
            at == IF Names(deps[1], S_python) THEN 2 ELSE 1
        IN  /\ Len(deps) >= at + 2
            /\ SubSeq(deps, at, at + 2) = <<StrDep(S_pip), StrDep(S_setuptools), StrDep(S_wheel)>>
            /\ \A i \in (at + 3)..Len(deps) :
                  ~(deps[i].t = "str" /\ IsHandledApart(deps[i].s))
            /\ \A n \in {S_pip, S_setuptools, S_wheel} :
                  Cardinality(NamedAt(final_yaml_data.dependencies, n)) = 1
            /\ result.kept + result.filtered = Len(SelectSeq(ParsedList, IsCounted))
            /\ Len(deps) = (at - 1) + 3 + result.kept

C25_Witness ==
    /\ pc = "returned"
    /\ list_export_output.lines = <<L_numpy, L_pip>>
    /\ TopLevel(final_yaml_data.dependencies) =
          StrDeps(<<S_pip, S_setuptools, S_wheel, <<"n","u","m","p","y","=","1",".","2","4">> >>)
    /\ result.kept = 1
    /\ result.filtered = 0

\* the conda commands of one environment, in the order of the code
CommandOrder == <<"--version", "env export --from-history", "env export", "list --export">>

Dir_envs == <<"envs">>

Dir_a == <<"envs", "a">>

Dir_inner == <<"envs", "a", "inner">>

Dir_b == <<"envs", "b">>

\* the directories that exist
Directories == {Dir_envs, Dir_a, Dir_inner, Dir_b}

\* what a directory holds: "env" a conda-meta with a history file and no
\* pkgs beside it, "skipped" a conda-meta that does not look like an
\* environment, "plain" no conda-meta
DirKinds == {"env", "skipped", "plain"}

Trees == {t \in [Directories -> DirKinds] : t[Dir_envs] = "plain"}

\* the subdirectories of d, in the order os.walk lists them
SubDirs(d) ==
    IF d = Dir_envs THEN <<Dir_a, Dir_b>>
    ELSE IF d = Dir_a THEN <<Dir_inner>>
    ELSE <<>>

\* os.walk(d, topdown=True) with the pruning of the loop body:
\* the environments appended from d downwards
RECURSIVE walk(_, _)
walk(d, tree) ==
    LET RECURSIVE below(_)
        below(ds) == IF ds = <<>> THEN <<>> ELSE walk(ds[1], tree) \o below(From(ds, 2))
    IN  IF tree[d] = "env" THEN <<d>>
        ELSE IF tree[d] = "skipped" THEN <<>>
        ELSE below(SubDirs(d))

\* the paths of the environments returned, in order
RECURSIVE find_conda_environments(_, _)
find_conda_environments(search_paths, tree) ==
    IF search_paths = <<>> THEN <<>>
    ELSE (IF search_paths[1] \in Directories THEN walk(search_paths[1], tree) ELSE <<>>)
         \o find_conda_environments(From(search_paths, 2), tree)

\* search paths: the directories and one that does not exist
SearchPathPool == Directories \cup {<<"missing">>}

InitFind ==
    /\ pc = "call find_conda_environments"
    /\ arg \in [search_paths : SeqsUpTo(SearchPathPool, MaxSearchPaths), tree : Trees]
    /\ ret = <<>>
    /\ EnvIdle
    /\ ToolsIdle
    /\ MainIdle

CallFind ==
    /\ pc = "call find_conda_environments"
    /\ ret' = find_conda_environments(arg.search_paths, arg.tree)
    /\ pc' = "returned find_conda_environments"
    /\ UNCHANGED <<toolvars, arg, envvars, mainvars>>

NextFind == CallFind

SpecFind == InitFind /\ [][NextFind]_vars

\* d lies inside e
Inside(d, e) == Len(d) > Len(e) /\ SubSeq(d, 1, Len(e)) = e

\* C27: whatever the search paths, repeated or one inside another, every
\* environment is returned at most once and no returned environment lies
\* inside another returned one.
C27_EachEnvironmentOnce ==
    (pc = "returned find_conda_environments") =>
        \A i, j \in 1..Len(ret) :
            i # j => (ret[i] # ret[j] /\ ~Inside(ret[i], ret[j]))

(***************************************************************************)
(* The final summary computed on every mix of rows                         *)
(***************************************************************************)
\* the environments of the rows, in order
SummaryEnvs == <<"envs/a", "envs/b", "envs/c", "envs/d">>

\* the row of environment i for the outcome o of process_environment
OutcomeRow(i, o) ==
    LET env == EnvData(SummaryEnvs[i], NoMtime)
    IN  IF o.raised THEN CriticalRow(env, "raised by process_environment")
        ELSE Row(env, o.status, o.method, "")

\* the loop has gone through found_envs_data and left these rows
InitSummary ==
    /\ pc = "main loop"
    /\ \E os \in SeqsUpTo(ProcessOutcomes, MaxEnvs) :
          /\ os # <<>>
          /\ found_envs_data = [i \in 1..Len(os) |-> EnvData(SummaryEnvs[i], NoMtime)]
          /\ all_results = [i \in 1..Len(os) |-> OutcomeRow(i, os[i])]
          /\ env_index = Len(os)
    /\ handed = <<>>
    /\ use_original_name = FALSE
    /\ FnIdle
    /\ EnvIdle
    /\ ToolsIdle

NextSummary == MainSummary

SpecSummary == InitSummary /\ [][NextSummary]_vars

OkHistory(r) == r.status = "OK" /\ r.method = "History"

OkFallback(r) == r.status = "OK" /\ r.method = "Fallback"

PackagePool == {"numpy", "zlib"}

\* how subprocess.run may end: it returns (check=True: exit code 0), or it
\* raises FileNotFoundError, CalledProcessError or something else
CondaOutcomes ==
    {[kind |-> "returned", text |-> "done"],
     [kind |-> "FileNotFoundError", text |-> ""],
     [kind |-> "CalledProcessError", text |-> "PackagesNotFoundError"],
     [kind |-> "Exception", text |-> "codec can't decode"]}

\* run_conda_command: (success, output) for the way subprocess.run ended
run_conda_command(outcome) ==
    CASE outcome.kind = "returned" ->
            [success |-> TRUE, details |-> outcome.text]
      [] outcome.kind = "FileNotFoundError" ->
            [success |-> FALSE, details |-> "Conda executable not found"]
      [] outcome.kind = "CalledProcessError" ->
            [success |-> FALSE, details |-> outcome.text]
      [] OTHER ->
            [success |-> FALSE, details |-> outcome.text]

\* one call of run_conda_command, as the log shows it
CondaRun(op, index, package, success) ==
    [op |-> op, index |-> index, package |-> package, success |-> success]

\* the package file has been read; results = [], both counters 0
InitTester ==
    /\ pc = "install"
    /\ packages_to_test \in SeqsUpTo(PackagePool, MaxPackages)
    /\ test_index = 0
    /\ results = <<>>
    /\ success_count = 0
    /\ failure_count = 0
    /\ conda_runs = <<>>
    /\ FnIdle
    /\ EnvIdle
    /\ MainIdle
    /\ AuditIdle

\* the install of the next package succeeds: SUCCESS row, then the clean-up
TestInstallSucceeds ==
    /\ pc = "install"
    /\ test_index < Len(packages_to_test)
    /\ \E outcome \in CondaOutcomes :
          LET package == packages_to_test[test_index + 1]
              run == run_conda_command(outcome)
          IN  /\ run.success
              /\ conda_runs' = Append(conda_runs,
                                      CondaRun("install", test_index + 1, package, TRUE))
              /\ results' = Append(results,
                                   [package_name |-> package, status |-> "SUCCESS",
                                    details |-> "Install successful"])
    /\ success_count' = success_count + 1
    /\ pc' = "uninstall"
    /\ UNCHANGED <<packages_to_test, test_index, failure_count,
                   auditvars, fnvars, envvars, mainvars>>

\* the install of the next package fails: FAILURE row, on to the next package
TestInstallFails ==
    /\ pc = "install"
    /\ test_index < Len(packages_to_test)
    /\ \E outcome \in CondaOutcomes :
          LET package == packages_to_test[test_index + 1]
              run == run_conda_command(outcome)
          IN  /\ ~run.success
              /\ conda_runs' = Append(conda_runs,
                                      CondaRun("install", test_index + 1, package, FALSE))
              /\ results' = Append(results,
                                   [package_name |-> package, status |-> "FAILURE",
                                    details |-> run.details])
    /\ failure_count' = failure_count + 1
    /\ test_index' = test_index + 1
    /\ pc' = "install"
    /\ UNCHANGED <<packages_to_test, success_count,
                   auditvars, fnvars, envvars, mainvars>>

\* a failed uninstall ends the run
TestUninstall_stops ==
    /\ pc = "uninstall"
    /\ \E outcome \in CondaOutcomes :
          LET package == packages_to_test[test_index + 1]
              run == run_conda_command(outcome)
          IN  /\ conda_runs' = Append(conda_runs,
                                      CondaRun("uninstall", test_index + 1, package, run.success))
              /\ pc' = IF run.success THEN "install" ELSE "tester done"
    /\ test_index' = test_index + 1
    /\ UNCHANGED <<packages_to_test, results, success_count, failure_count,
                   auditvars, fnvars, envvars, mainvars>>

\* the clean-up of the package just installed; what it returns is dropped
TestUninstall ==
    /\ pc = "uninstall"
    /\ \E outcome \in CondaOutcomes :
          LET package == packages_to_test[test_index + 1]
              run == run_conda_command(outcome)
          IN  conda_runs' = Append(conda_runs,
                                  CondaRun("uninstall", test_index + 1, package, run.success))
    /\ test_index' = test_index + 1
    /\ pc' = "install"
    /\ UNCHANGED <<packages_to_test, results, success_count, failure_count,
                   auditvars, fnvars, envvars, mainvars>>

\* the loop is over: the final summary and write_csv_report
TestSummary ==
    /\ pc = "install"
    /\ test_index = Len(packages_to_test)
    /\ pc' = "tester done"
    /\ UNCHANGED <<testervars, auditvars, fnvars, envvars, mainvars>>

NextTester ==
    \/ TestInstallSucceeds
    \/ TestInstallFails
    \/ TestUninstall
    \/ TestSummary

SpecTester == InitTester /\ [][NextTester]_vars

\* the positions of conda_runs that are installs, in order
InstallRuns == SelectSeq(conda_runs, LAMBDA r : r.op = "install")

\* C29: the install tester takes the packages one at a time in file order,
\* gives every package exactly one row, SUCCESS or FAILURE, counts every
\* row as a success or a failure, uninstalls a package only right after
\* its install succeeded and before the next install, and a failed
\* uninstall neither changes the SUCCESS row nor stops the run.
C29_OneRowPerPackage ==
    /\ Len(InstallRuns) = Len(results)
    /\ \A k \in 1..Len(InstallRuns) :
          /\ InstallRuns[k].index = k
          /\ InstallRuns[k].package = packages_to_test[k]
          /\ results[k].package_name = packages_to_test[k]
          /\ results[k].status = (IF InstallRuns[k].success THEN "SUCCESS" ELSE "FAILURE")
    /\ success_count + failure_count = Len(results)
    /\ success_count = Cardinality({k \in 1..Len(results) : results[k].status = "SUCCESS"})
    /\ \A k \in 1..Len(conda_runs) :
          /\ conda_runs[k].op = "uninstall" =>
                /\ k > 1
                /\ conda_runs[k - 1] =
                      CondaRun("install", conda_runs[k].index, conda_runs[k].package, TRUE)
                /\ results[conda_runs[k].index] =
                      [package_name |-> conda_runs[k].package, status |-> "SUCCESS",
                       details |-> "Install successful"]
          /\ (conda_runs[k].op = "install" /\ conda_runs[k].success /\ k < Len(conda_runs)) =>
                conda_runs[k + 1].op = "uninstall"
    /\ pc = "tester done" =>
          /\ Len(results) = Len(packages_to_test)
          /\ success_count + failure_count = Len(packages_to_test)
          /\ conda_runs # <<>> /\ conda_runs[Len(conda_runs)].op = "install" =>
                ~conda_runs[Len(conda_runs)].success

\* a run that is over, in which an uninstall failed before the last package
\* and an install failed
C29_Witness ==
    /\ pc = "tester done"
    /\ Len(packages_to_test) = MaxPackages
    /\ \E k \in 1..Len(conda_runs) :
          /\ conda_runs[k].op = "uninstall"
          /\ ~conda_runs[k].success
          /\ conda_runs[k].index < Len(packages_to_test)
    /\ \E k \in 1..Len(results) : results[k].status = "FAILURE"

(***************************************************************************)
(* The channel auditor, src/gemini-final-conda-scan-1/audit_scan_6.py      *)
(***************************************************************************)
INTERNAL_NEXUS_URL == <<"n","e","x","u","s",".","y","o","u","r","d","o","m","a","i","n",".","c","o","m">>

ALLOWED_INDICATORS == <<<<"c","o","n","d","a","-","f","o","r","g","e">>, INTERNAL_NEXUS_URL>>

ANACONDA_INDICATORS ==
    <<<<"r","e","p","o",".","a","n","a","c","o","n","d","a",".","c","o","m">>, <<"p","k","g","s","/","m","a","i","n">>, <<"p","k","g","s","/","r">>, <<"p","k","g","s","/","m","s","y","s","2">>, <<"d","e","f","a","u","l","t","s">>>>

\* pkg.get('channel'): None when the key is missing, a string otherwise
NoChannel == [t |-> "none", s |-> <<>>]

Channel(s) == [t |-> "str", s |-> s]

STATUS_PASS == <<"P","A","S","S">>

STATUS_SCAN_ERROR == <<"S","C","A","N","_","E","R","R","O","R">>

\* analyze_package: the status of one package of conda list --json
analyze_package(pkg) ==
    LET channel == pkg.channel
        is_allowed == \E k \in 1..Len(ALLOWED_INDICATORS) :
                         Contains(channel.s, ALLOWED_INDICATORS[k])
    IN  IF channel.t = "none" \/ channel.s = <<>>
            THEN <<"R","I","S","K","_","E","M","P","T","Y","_","C","H","A","N","N","E","L">>
        ELSE IF \E k \in 1..Len(ANACONDA_INDICATORS) :
                   Contains(channel.s, ANACONDA_INDICATORS[k])
            THEN <<"V","I","O","L","A","T","I","O","N","_","A","N","A","C","O","N","D","A","_","D","E","F","A","U","L","T">>
        ELSE IF ~is_allowed
            THEN IF channel.s = <<"p","y","p","i">>
                     THEN STATUS_PASS
                     ELSE <<"R","I","S","K","_","U","N","K","N","O","W","N","_","C","H","A","N","N","E","L","_","(">> \o channel.s \o <<")">>
        ELSE STATUS_PASS

\* the packages conda list may report
PkgPool ==
    {[name |-> "numpy", version |-> "1.26", channel |-> Channel(<<"c","o","n","d","a","-","f","o","r","g","e">>)],
     [name |-> "zlib", version |-> "1.3", channel |-> Channel(<<"p","k","g","s","/","m","a","i","n">>)],
     [name |-> "six", version |-> "1.16", channel |-> Channel(<<"p","y","p","i">>)],
     [name |-> "samtools", version |-> "1.20", channel |-> Channel(<<"b","i","o","c","o","n","d","a">>)],
     [name |-> "local", version |-> "0.1", channel |-> NoChannel]}

\* how conda list may end for one environment
CondaListOutcomes ==
    {[kind |-> "FileNotFoundError", pkgs |-> <<>>],
     [kind |-> "Exception", pkgs |-> <<>>],
     [kind |-> "returncode", pkgs |-> <<>>],
     [kind |-> "not json", pkgs |-> <<>>]}
    \cup {[kind |-> "json", pkgs |-> l] : l \in SeqsUpTo(PkgPool, MaxPkgs)}

\* get_conda_packages: the list, "ERROR", or sys.exit(1)
get_conda_packages(outcome) ==
    CASE outcome.kind = "FileNotFoundError" -> [t |-> "exit", pkgs |-> <<>>]
      [] outcome.kind = "json" -> [t |-> "list", pkgs |-> outcome.pkgs]
      [] OTHER -> [t |-> "ERROR", pkgs |-> <<>>]

\* the environment paths of the model, in the order of str
AuditPathOrder == <<"/home/b/env", "/opt/a", "/usr/local/c">>

\* what scan_filesystem may return: os.walk visits a directory once and no
\* scan root lies inside another, so that no path comes twice
EnvLists ==
    {<<>>, <<"/opt/a">>, <<"/home/b/env", "/opt/a">>, <<"/opt/a", "/usr/local/c">>}

\* sorted(list(first) + list(second))
sorted_paths(first, second) ==
    LET count(e) == (IF e \in first THEN 1 ELSE 0) + (IF e \in second THEN 1 ELSE 0)
        RECURSIVE from(_)
        from(k) == IF k > Len(AuditPathOrder) THEN <<>>
                   ELSE [j \in 1..count(AuditPathOrder[k]) |-> AuditPathOrder[k]] \o from(k + 1)
    IN  from(1)

\* a report file: not written when there is nothing to write
NotWritten == [written |-> FALSE, lines |-> <<>>]

Written(lines) == [written |-> TRUE, lines |-> lines]

NoAudit == [envs_found |-> 0, total_flagged |-> 0, scan_errors |-> 0, violations |-> 0,
            report |-> NotWritten, all_dirty |-> NotWritten, violations_only |-> NotWritten]

\* scan_filesystem has returned; csv_results = [], both sets empty
InitAudit ==
    /\ pc = "audit"
    /\ envs \in EnvLists
    /\ audit_index = 0
    /\ conda_lists = <<>>
    /\ csv_results = <<>>
    /\ error_envs = {}
    /\ violation_envs = {}
    /\ arg = NoneDoc
    /\ ret = NoAudit
    /\ EnvIdle
    /\ MainIdle
    /\ TesterIdle

\* the scan error is followed by the analysis of the packages
AuditScanError_falls_through ==
    /\ pc = "audit"
    /\ audit_index < Len(envs)
    /\ \E outcome \in CondaListOutcomes :
          LET env == envs[audit_index + 1]
              packages == get_conda_packages(outcome)
          IN  /\ packages.t = "ERROR"
              /\ conda_lists' = Append(conda_lists, packages)
              /\ error_envs' = error_envs \cup {env}
              /\ violation_envs' = violation_envs \cup {env}
              /\ csv_results' = Append(csv_results,
                                       [env |-> env, name |-> "ERROR", version |-> "N/A",
                                        status |-> STATUS_SCAN_ERROR])
    /\ audit_index' = audit_index + 1
    /\ UNCHANGED <<pc, envs, testervars, fnvars, envvars, mainvars>>

\* conda list failed: SCAN ERROR, and on to the next environment
AuditScanError ==
    /\ pc = "audit"
    /\ audit_index < Len(envs)
    /\ \E outcome \in CondaListOutcomes :
          LET env == envs[audit_index + 1]
              packages == get_conda_packages(outcome)
          IN  /\ packages.t = "ERROR"
              /\ conda_lists' = Append(conda_lists, packages)
              /\ error_envs' = error_envs \cup {env}
              /\ csv_results' = Append(csv_results,
                                       [env |-> env, name |-> "ERROR", version |-> "N/A",
                                        status |-> STATUS_SCAN_ERROR])
    /\ audit_index' = audit_index + 1
    /\ UNCHANGED <<pc, envs, violation_envs, testervars, fnvars, envvars, mainvars>>

\* the conda executable has gone: sys.exit(1) inside get_conda_packages
AuditCondaMissing ==
    /\ pc = "audit"
    /\ audit_index < Len(envs)
    /\ \E outcome \in CondaListOutcomes : get_conda_packages(outcome).t = "exit"
    /\ pc' = "exit 1"
    /\ UNCHANGED <<auditvars, testervars, fnvars, envvars, mainvars>>

\* conda list reports no package: nothing is recorded
AuditNoPackages ==
    /\ pc = "audit"
    /\ audit_index < Len(envs)
    /\ \E outcome \in CondaListOutcomes :
          LET packages == get_conda_packages(outcome)
          IN  /\ packages.t = "list"
              /\ packages.pkgs = <<>>
              /\ conda_lists' = Append(conda_lists, packages)
    /\ audit_index' = audit_index + 1
    /\ UNCHANGED <<pc, envs, csv_results, error_envs, violation_envs,
                   testervars, fnvars, envvars, mainvars>>

\* the rows of the packages of env whose status is not PASS, in order
fail_rows(env, pkgs) ==
    LET failing == SelectSeq(pkgs, LAMBDA pkg : analyze_package(pkg) # STATUS_PASS)
    IN  [k \in 1..Len(failing) |->
            [env |-> env, name |-> failing[k].name, version |-> failing[k].version,
             status |-> analyze_package(failing[k])]]

\* conda list reports packages: each is analysed
AuditAnalyze ==
    /\ pc = "audit"
    /\ audit_index < Len(envs)
    /\ \E outcome \in CondaListOutcomes :
          LET env == envs[audit_index + 1]
              packages == get_conda_packages(outcome)
              rows == fail_rows(env, packages.pkgs)
              env_has_violation == rows # <<>>
          IN  /\ packages.t = "list"
              /\ packages.pkgs # <<>>
              /\ conda_lists' = Append(conda_lists, packages)
              /\ csv_results' = csv_results \o rows
              /\ violation_envs' = IF env_has_violation
                                       THEN violation_envs \cup {env}
                                       ELSE violation_envs
    /\ audit_index' = audit_index + 1
    /\ UNCHANGED <<pc, envs, error_envs, testervars, fnvars, envvars, mainvars>>

\* the loop is over: the three output files and the final summary block
AuditSummary ==
    /\ pc = "audit"
    /\ audit_index = Len(envs)
    /\ LET all_dirty_envs == sorted_paths(error_envs, violation_envs)
           dirty_lines == [k \in 1..Len(all_dirty_envs) |->
                              [env |-> all_dirty_envs[k],
                               scan_error |-> all_dirty_envs[k] \in error_envs]]
           total_flagged == Cardinality(error_envs) + Cardinality(violation_envs)
       IN  ret' = [envs_found |-> Len(envs),
                   total_flagged |-> total_flagged,
                   scan_errors |-> Cardinality(error_envs),
                   violations |-> Cardinality(violation_envs),
                   report |-> IF csv_results # <<>> THEN Written(csv_results) ELSE NotWritten,
                   all_dirty |-> IF all_dirty_envs # <<>> THEN Written(dirty_lines) ELSE NotWritten,
                   violations_only |-> IF violation_envs # {}
                                           THEN Written(sorted_paths(violation_envs, {}))
                                           ELSE NotWritten]
    /\ pc' = "audit done"
    /\ UNCHANGED <<auditvars, testervars, arg, envvars, mainvars>>

NextAudit ==
    \/ AuditScanError
    \/ AuditCondaMissing
    \/ AuditNoPackages
    \/ AuditAnalyze
    \/ AuditSummary

SpecAudit == InitAudit /\ [][NextAudit]_vars

\* the rows of the detailed report about env
RowsOf(env) == SelectSeq(csv_results, LAMBDA row : row.env = env)

\* C30: in the channel auditor the scan-error environments and the
\* violation environments are disjoint: an environment whose conda list
\* failed has one row, SCAN_ERROR, no package row, and is not in the
\* violations-only list; an environment is a violation exactly when its
\* package list was obtained and some package's status is not PASS; and
\* Flagged Envs is scan errors plus violations, at most Envs Found.
C30_ErrorsAndViolationsApart ==
    /\ error_envs \cap violation_envs = {}
    /\ \A k \in 1..audit_index :
          LET env == envs[k]
              packages == conda_lists[k]
          IN  /\ env \in error_envs <=> packages.t = "ERROR"
              /\ packages.t = "ERROR" =>
                    RowsOf(env) = <<[env |-> env, name |-> "ERROR", version |-> "N/A",
                                     status |-> STATUS_SCAN_ERROR]>>
              /\ env \in violation_envs <=>
                    /\ packages.t = "list"
                    /\ \E j \in 1..Len(packages.pkgs) :
                          analyze_package(packages.pkgs[j]) # STATUS_PASS
    /\ \A k \in (audit_index + 1)..Len(envs) :
          envs[k] \notin error_envs \cup violation_envs
    /\ pc = "audit done" =>
          /\ ret.envs_found = Len(envs)
          /\ ret.scan_errors = Cardinality(error_envs)
          /\ ret.violations = Cardinality(violation_envs)
          /\ ret.total_flagged = ret.scan_errors + ret.violations
          /\ ret.total_flagged = Cardinality(error_envs \cup violation_envs)
          /\ ret.total_flagged <= ret.envs_found
          /\ \A j \in 1..Len(ret.violations_only.lines) :
                ret.violations_only.lines[j] \notin error_envs
          /\ \A e \in error_envs :
                Cardinality({j \in 1..Len(ret.all_dirty.lines) :
                                ret.all_dirty.lines[j].env = e}) = 1

\* a scan that is over, with a scan error and a violation
C30_Witness ==
    /\ pc = "audit done"
    /\ error_envs # {}
    /\ violation_envs # {}
    /\ ret.total_flagged = 2

====
